---- MODULE Spec2Model ----
(***************************************************************************)
(* A model of esp_parser: the top-level stream driver (parse_esp), the     *)
(* group codec (Group.parse / Group.unparse), the record envelope codec    *)
(* (Record.parse / Record.unparse) and the TES4 and ACTI dispatch tables   *)
(* with their field codecs.  Byte strings are sequences of 0..255, a       *)
(* BytesIO is a pair (buffer, position).  The result of a call is passed   *)
(* to the operator that models the rest of the function, so that every     *)
(* call is written once.                                                   *)
(***************************************************************************)
EXTENDS Integers, Sequences, FiniteSets, TLC

(***************************************************************************)
(* Bounds of the model.                                                    *)
(***************************************************************************)
\* entities plus fields of the tree the client builds
MaxNodes == 3
\* nesting of groups in the tree the client builds
MaxDepth == 1
\* entities plus fields of a tree whose bytes are altered before parsing;
\* the bytes of a tree edited after a parse are parsed as they are
MaxAlteredNodes == 2

\* edits, in one behaviour, of values parsed from an unaltered serialisation
MaxEdits == 1

(***************************************************************************)
(* Byte strings and BytesIO.read.                                          *)
(***************************************************************************)
Min(a, b) == IF a < b THEN a ELSE b

\* bytes.encode()/decode() of the 4-character names used by the program
NameBytes ==
  [GRUP |-> <<71, 82, 85, 80>>,
   TES4 |-> <<84, 69, 83, 52>>,
   ACTI |-> <<65, 67, 84, 73>>,
   HEDR |-> <<72, 69, 68, 82>>,
   CNAM |-> <<67, 78, 65, 77>>,
   SNAM |-> <<83, 78, 65, 77>>,
   MAST |-> <<77, 65, 83, 84>>,
   DATA |-> <<68, 65, 84, 65>>,
   ONAM |-> <<79, 78, 65, 77>>,
   MODS |-> <<77, 79, 68, 83>>,
   DELE |-> <<68, 69, 76, 69>>,
   OFST |-> <<79, 70, 83, 84>>,
   SCRN |-> <<83, 67, 82, 78>>,
   EDID |-> <<69, 68, 73, 68>>,
   OBND |-> <<79, 66, 78, 68>>,
   FULL |-> <<70, 85, 76, 76>>,
   INAM |-> <<73, 78, 65, 77>>,
   RNAM |-> <<82, 78, 65, 77>>,
   SCRI |-> <<83, 67, 82, 73>>,
   VNAM |-> <<86, 78, 65, 77>>,
   WNAM |-> <<87, 78, 65, 77>>,
   XATO |-> <<88, 65, 84, 79>>,
   MODL |-> <<77, 79, 68, 76>>,
   MODB |-> <<77, 79, 68, 66>>,
   DEST |-> <<68, 69, 83, 84>>,
   DSTD |-> <<68, 83, 84, 68>>,
   DSTF |-> <<68, 83, 84, 70>>,
   ZZZZ |-> <<90, 90, 90, 90>>,
   CELL |-> <<67, 69, 76, 76>>,
   PERK |-> <<80, 69, 82, 75>>,
   CTDA |-> <<67, 84, 68, 65>>,
   DESC |-> <<68, 69, 83, 67>>,
   ICON |-> <<73, 67, 79, 78>>,
   MICO |-> <<77, 73, 67, 79>>,
   PRKE |-> <<80, 82, 75, 69>>,
   PRKC |-> <<80, 82, 75, 67>>,
   EPFT |-> <<69, 80, 70, 84>>,
   EPFD |-> <<69, 80, 70, 68>>,
   EPF2 |-> <<69, 80, 70, 50>>,
   EPF3 |-> <<69, 80, 70, 51>>,
   PRKF |-> <<80, 82, 75, 70>>,
   INDX |-> <<73, 78, 68, 88>>,
   QOBJ |-> <<81, 79, 66, 74>>,
   NVER |-> <<78, 86, 69, 82>>,
   XCLR |-> <<88, 67, 76, 82>>,
   NVCI |-> <<78, 86, 67, 73>>,
   NVVX |-> <<78, 86, 86, 88>>,
   TNAM |-> <<84, 78, 65, 77>>,
   NPC_ |-> <<78, 80, 67, 95>>,
   XRGD |-> <<88, 82, 71, 68>>]

Encode(name) == NameBytes[name]

IsName(b) == \E n \in DOMAIN NameBytes : NameBytes[n] = b

Decode(b) == CHOOSE n \in DOMAIN NameBytes : NameBytes[n] = b

\* io.BytesIO.read(n) at position pos: a short read returns what is left,
\* a negative n reads to the end of the buffer.
Read(buf, pos, n) ==
  IF n < 0 THEN SubSeq(buf, pos + 1, Len(buf))
  ELSE SubSeq(buf, pos + 1, Min(pos + n, Len(buf)))

RECURSIVE Join(_)
Join(ss) == IF ss = <<>> THEN <<>> ELSE Head(ss) \o Join(Tail(ss))

(***************************************************************************)
(* struct.pack / struct.unpack, little-endian, standard sizes.  A format   *)
(* is a sequence of codes; sN is the code "Ns".  Unsigned 32-bit values    *)
(* are kept below 2^31.                                                    *)
(***************************************************************************)
RECURSIVE LE(_)
LE(b) == IF b = <<>> THEN 0 ELSE b[1] + 256 * LE(Tail(b))

RECURSIVE Pow256(_)
Pow256(k) == IF k = 0 THEN 1 ELSE 256 * Pow256(k - 1)

ToLE(n, w) == [i \in 1..w |-> (n \div Pow256(i - 1)) % 256]

CodeSize == [B |-> 1, b |-> 1, H |-> 2, h |-> 2, I |-> 4, i |-> 4, f |-> 4,
             s2 |-> 2, s3 |-> 3, s4 |-> 4, s6 |-> 6]

RECURSIVE calcsize(_)
calcsize(fmt) == IF fmt = <<>> THEN 0 ELSE CodeSize[Head(fmt)] + calcsize(Tail(fmt))

\* A Python float is [f32, excess]: a float32 bit pattern (as an integer) and
\* the position of the double among the FloatStep doubles from that float32
\* up to the next; excess = 0 is a double that is exactly a float32.
FloatStep == 4

Float(f32, excess) == [f32 |-> f32, excess |-> excess]

InRange(c, v) ==
  CASE c = "B" -> v \in 0..255
    [] c = "b" -> v \in -128..127
    [] c = "H" -> v \in 0..65535
    [] c = "h" -> v \in -32768..32767
    [] c = "I" -> v >= 0
    [] c = "i" -> TRUE
    [] c = "f" -> TRUE
    [] OTHER -> TRUE

PackOne(c, v) ==
  CASE c = "B" -> ToLE(v, 1)
    [] c = "b" -> ToLE((v + 256) % 256, 1)
    [] c = "H" -> ToLE(v, 2)
    [] c = "h" -> ToLE((v + 65536) % 65536, 2)
    [] c = "I" -> ToLE(v, 4)
    [] c = "i" -> IF v >= 0 THEN ToLE(v, 4)
                  ELSE LET u == (v + 2147483647) + 1
                       IN  [ToLE(u, 4) EXCEPT ![4] = @ + 128]
    [] c = "f" -> ToLE(IF 2 * v.excess >= FloatStep THEN v.f32 + 1 ELSE v.f32, 4)
    [] OTHER -> [k \in 1..CodeSize[c] |-> IF k <= Len(v) THEN v[k] ELSE 0]

UnpackOne(c, b) ==
  CASE c = "B" -> LE(b)
    [] c = "b" -> IF LE(b) >= 128 THEN LE(b) - 256 ELSE LE(b)
    [] c = "H" -> LE(b)
    [] c = "h" -> IF LE(b) >= 32768 THEN LE(b) - 65536 ELSE LE(b)
    [] c = "I" -> LE(b)
    [] c = "i" -> IF b[4] >= 128
                  THEN (LE([b EXCEPT ![4] = @ - 128]) - 2147483647) - 1
                  ELSE LE(b)
    [] c = "f" -> Float(LE(b), 0)
    [] OTHER -> b

RECURSIVE PackAll(_, _)
PackAll(fmt, vals) ==
  IF fmt = <<>> THEN <<>>
  ELSE PackOne(Head(fmt), Head(vals)) \o PackAll(Tail(fmt), Tail(vals))

\* struct.pack: struct.error when a value is out of the range of its code
struct_pack(fmt, vals) ==
  IF \A k \in 1..Len(fmt) : InRange(fmt[k], vals[k])
  THEN [st |-> "ok", bytes |-> PackAll(fmt, vals)]
  ELSE [st |-> "struct.error", bytes |-> <<>>]

RECURSIVE UnpackAll(_, _)
UnpackAll(fmt, b) ==
  IF fmt = <<>> THEN <<>>
  ELSE LET n == CodeSize[Head(fmt)]
       IN  <<UnpackOne(Head(fmt), SubSeq(b, 1, n))>>
             \o UnpackAll(Tail(fmt), SubSeq(b, n + 1, Len(b)))

\* struct.unpack: struct.error unless the buffer has exactly calcsize bytes
struct_unpack(fmt, b) ==
  IF Len(b) = calcsize(fmt)
  THEN [st |-> "ok", vals |-> UnpackAll(fmt, b)]
  ELSE [st |-> "struct.error", vals |-> <<>>]

(***************************************************************************)
(* zlib.compress / zlib.decompress.  The streams of the model are zlib     *)
(* streams with a single stored deflate block: two header bytes, the block *)
(* byte, LEN and its complement, the data and its Adler-32 (big-endian).   *)
(* compress always writes the header of the default level (78 9c);         *)
(* decompress accepts the header of every level and, as the one-shot       *)
(* zlib.decompress does, ignores what follows the end of the stream.       *)
(***************************************************************************)
RECURSIVE AdlerA(_)
AdlerA(b) == IF b = <<>> THEN 1 ELSE (AdlerA(SubSeq(b, 1, Len(b) - 1)) + b[Len(b)]) % 65521

RECURSIVE AdlerB(_)
AdlerB(b) == IF b = <<>> THEN 0 ELSE (AdlerB(SubSeq(b, 1, Len(b) - 1)) + AdlerA(b)) % 65521

Adler32Bytes(hi, lo) == <<hi \div 256, hi % 256, lo \div 256, lo % 256>>

adler32(b) == Adler32Bytes(AdlerB(b), AdlerA(b))

ZlibHeaderLen == 7

zlib_compress(b) ==
  <<120, 156, 1>> \o ToLE(Len(b), 2) \o ToLE(65535 - Len(b), 2) \o b \o adler32(b)

\* the stored block of n bytes that follows the header of d
zlib_inflate(d, n) ==
  IF /\ Len(d) >= ZlibHeaderLen + n + 4
     /\ SubSeq(d, ZlibHeaderLen + n + 1, ZlibHeaderLen + n + 4)
          = adler32(SubSeq(d, ZlibHeaderLen + 1, ZlibHeaderLen + n))
  THEN [st |-> "ok", bytes |-> SubSeq(d, ZlibHeaderLen + 1, ZlibHeaderLen + n)]
  ELSE [st |-> "zlib.error", bytes |-> <<>>]

zlib_decompress(d) ==
  IF /\ Len(d) >= ZlibHeaderLen
     /\ d[1] = 120
     /\ (d[1] * 256 + d[2]) % 31 = 0
     /\ (d[2] \div 32) % 2 = 0
     /\ d[3] = 1
     /\ LE(SubSeq(d, 4, 5)) + LE(SubSeq(d, 6, 7)) = 65535
  THEN zlib_inflate(d, LE(SubSeq(d, 4, 5)))
  ELSE [st |-> "zlib.error", bytes |-> <<>>]

(***************************************************************************)
(* Field (subrecord) values and their codecs.  A field value is            *)
(* [owner, name, v]: the class owner.name and the Python value.  parse     *)
(* takes the buffer and the position after the tag and returns             *)
(* [st, val, pos, sub]; st is "ok", the name of the exception raised, or   *)
(* "hang" when the call does not return.  unparse returns [st, bytes].     *)
(***************************************************************************)
Field(owner, name, v) == [owner |-> owner, name |-> name, v |-> v]

\* sub: how far parse_subrecords got inside a record body (fields yielded,
\* position in the body buffer)
NoSub == [n |-> 0, at |-> 0]

Ok(val, pos) == [st |-> "ok", val |-> val, pos |-> pos, sub |-> NoSub]

Raise(exc, pos) == [st |-> exc, val |-> <<>>, pos |-> pos, sub |-> NoSub]

OkBytes(b) == [st |-> "ok", bytes |-> b]

RaiseBytes(exc) == [st |-> exc, bytes |-> <<>>]

\* prefix + r, r + tail and h + t of results that may be exceptions
Prepend(prefix, r) == IF r.st # "ok" THEN r ELSE OkBytes(prefix \o r.bytes)

AppendBytes(r, tail) == IF r.st # "ok" THEN r ELSE OkBytes(r.bytes \o tail)

JoinBytes(h, t) ==
  IF h.st # "ok" THEN h ELSE IF t.st # "ok" THEN t ELSE OkBytes(h.bytes \o t.bytes)

\* cls(*struct.unpack(...)) of a fixed-layout field
FromUnpack(owner, name, u, okpos, errpos) ==
  IF u.st # "ok" THEN Raise(u.st, errpos) ELSE Ok(Field(owner, name, u.vals), okpos)

\* position of the first NUL byte after pos, 0 when there is none
FirstNul(buf, pos) ==
  IF \E k \in (pos + 1)..Len(buf) : buf[k] = 0
  THEN CHOOSE k \in (pos + 1)..Len(buf) :
         buf[k] = 0 /\ \A j \in (pos + 1)..(k - 1) : buf[j] # 0
  ELSE 0

\* the loop of CStringRecord.parse from position start: bytes are read one
\* at a time up to a NUL; at the end of the buffer read(1) is b"" for ever
\* and the loop never ends.
CStringRecord_loop(owner, name, buf, start, nul) ==
  IF nul = 0 THEN Raise("hang", Len(buf))
  ELSE Ok(Field(owner, name, SubSeq(buf, start + 1, nul - 1)), nul)

\* a decoder that takes as many bytes as the size field says and drops the
\* last of them
CStringRecord_parse_sized(owner, name, buf, pos) ==
  Ok(Field(owner, name, Read(buf, pos + 2, LE(Read(buf, pos, 2)) - 1)),
     Min(pos + 2 + LE(Read(buf, pos, 2)), Len(buf)))

\* CStringRecord.parse: the size field is read and dropped
CStringRecord_parse(owner, name, buf, pos) ==
  CStringRecord_loop(owner, name, buf, Min(pos + 2, Len(buf)),
                     FirstNul(buf, Min(pos + 2, Len(buf))))

CStringRecord_unparse(fld) ==
  Prepend(Encode(fld.name),
          AppendBytes(struct_pack(<<"H">>, <<Len(fld.v) + 1>>), fld.v \o <<0>>))

HEDR_format == <<"f", "I", "s4">>

TES4_HEDR_parse(buf, pos) ==
  IF Read(buf, pos, 2) # <<12, 0>> THEN Raise("AssertionError", Min(pos + 2, Len(buf)))
  ELSE FromUnpack("TES4", "HEDR", struct_unpack(HEDR_format, Read(buf, pos + 2, 12)),
                  pos + 14, Min(pos + 14, Len(buf)))

\* an encoder that leaves the size field out
TES4_HEDR_unparse_unsized(fld) ==
  Prepend(Encode("HEDR"), struct_pack(HEDR_format, fld.v))

TES4_HEDR_unparse(fld) ==
  Prepend(Encode("HEDR") \o <<12, 0>>, struct_pack(HEDR_format, fld.v))

\* TES4.DATA.parse: the 10 bytes after the tag (size field included) are
\* the value, whatever they are and however many are left.
TES4_DATA_parse(buf, pos) ==
  Ok(Field("TES4", "DATA", Read(buf, pos, 10)), Min(pos + 10, Len(buf)))

TES4_DATA_unparse(fld) == OkBytes(Encode("DATA") \o fld.v)

RECURSIVE Chunks4(_)
Chunks4(b) == IF b = <<>> THEN <<>> ELSE <<SubSeq(b, 1, 4)>> \o Chunks4(SubSeq(b, 5, Len(b)))

\* TES4.ONAM.parse after buf = raw_bytes.read(size)
TES4_ONAM_elements(size, body, after) ==
  IF size % 4 # 0 THEN Raise("AssertionError", after)
  ELSE IF Len(body) # size THEN Raise("struct.error", after)
  ELSE Ok(Field("TES4", "ONAM", Chunks4(body)), after)

\* TES4.ONAM.parse after the size field is unpacked
TES4_ONAM_sized(hdr, buf, pos) ==
  IF hdr.st # "ok" THEN Raise(hdr.st, Len(buf))
  ELSE TES4_ONAM_elements(hdr.vals[1], Read(buf, pos + 2, hdr.vals[1]),
                          Min(pos + 2 + hdr.vals[1], Len(buf)))

TES4_ONAM_parse(buf, pos) ==
  TES4_ONAM_sized(struct_unpack(<<"H">>, Read(buf, pos, 2)), buf, pos)

\* TES4.ONAM.unparse writes its elements under the tag MODS
ONAM_unparse_tag == "MODS"

TES4_ONAM_unparse(fld) ==
  IF Len(fld.v) * 4 # Len(Join(fld.v)) THEN RaiseBytes("AssertionError")
  ELSE Prepend(Encode(ONAM_unparse_tag),
               AppendBytes(struct_pack(<<"H">>, <<Len(Join(fld.v))>>), Join(fld.v)))

(***************************************************************************)
(* The field codecs of subrecords.py and types.py that ACTI routes to.     *)
(***************************************************************************)
\* FormIDRecord.parse: the 4 bytes after the size field, or what is left
FormIDRecord_parse(owner, name, buf, pos) ==
  IF Read(buf, pos, 2) # <<4, 0>> THEN Raise("AssertionError", Min(pos + 2, Len(buf)))
  ELSE Ok(Field(owner, name, Read(buf, pos + 2, 4)), Min(pos + 6, Len(buf)))

FormIDRecord_unparse(fld) == OkBytes(Encode(fld.name) \o <<4, 0>> \o fld.v)

\* MarkerRecord holds no value and defines no __eq__: a marker is equal to
\* itself only.  The v of a marker names the instance: 0 is the one the
\* client made, the one a parse makes is named by the position it reached.
MarkerRecord_parse(owner, name, buf, pos) ==
  IF Read(buf, pos, 2) # <<0, 0>> THEN Raise("AssertionError", Min(pos + 2, Len(buf)))
  ELSE Ok(Field(owner, name, pos + 2), pos + 2)

MarkerRecord_unparse(fld) == OkBytes(Encode(fld.name) \o <<0, 0>>)

OBND_format == <<"h", "h", "h", "h", "h", "h">>

OBND_parse(buf, pos) ==
  IF Read(buf, pos, 2) # <<12, 0>> THEN Raise("AssertionError", Min(pos + 2, Len(buf)))
  ELSE FromUnpack("subrecords", "OBND", struct_unpack(OBND_format, Read(buf, pos + 2, 12)),
                  pos + 14, Min(pos + 14, Len(buf)))

OBND_unparse(fld) == Prepend(Encode("OBND") \o <<12, 0>>, struct_pack(OBND_format, fld.v))

DEST_format == <<"i", "B", "B", "s2">>

Destruction_DEST_parse(buf, pos) ==
  IF Read(buf, pos, 2) # <<8, 0>> THEN Raise("AssertionError", Min(pos + 2, Len(buf)))
  ELSE FromUnpack("Destruction", "DEST", struct_unpack(DEST_format, Read(buf, pos + 2, 8)),
                  pos + 10, Min(pos + 10, Len(buf)))

Destruction_DEST_unparse(fld) ==
  Prepend(Encode("DEST"), struct_pack(<<"H">> \o DEST_format, <<8>> \o fld.v))

DSTD_format == <<"B", "B", "B", "B", "i", "s4", "s4", "i">>

Destruction_DSTD_parse(buf, pos) ==
  IF Read(buf, pos, 2) # <<20, 0>> THEN Raise("AssertionError", Min(pos + 2, Len(buf)))
  ELSE FromUnpack("Destruction", "DSTD", struct_unpack(DSTD_format, Read(buf, pos + 2, 20)),
                  pos + 22, Min(pos + 22, Len(buf)))

Destruction_DSTD_unparse(fld) ==
  Prepend(Encode("DSTD"), struct_pack(<<"H">> \o DSTD_format, <<20>> \o fld.v))

AlternateTexture(name, texture, index) == [name |-> name, texture |-> texture, index |-> index]

\* AlternateTexture.unpack from the unpacking of texture and index on
AlternateTexture_make(name, pos, len, u) ==
  IF u.st # "ok" THEN Raise(u.st, len)
  ELSE Ok(AlternateTexture(name, u.vals[1], u.vals[2]), pos + 8)

\* AlternateTexture.unpack from the read of the name on
AlternateTexture_name(buf, pos, n) ==
  IF n.st # "ok" THEN Raise(n.st, Len(buf))
  ELSE AlternateTexture_make(Read(buf, pos + 4, n.vals[1]),
                             Min(pos + 4 + n.vals[1], Len(buf)), Len(buf),
                             struct_unpack(<<"s4", "i">>,
                                           Read(buf, Min(pos + 4 + n.vals[1], Len(buf)), 8)))

AlternateTexture_unpack(buf, pos) ==
  AlternateTexture_name(buf, pos, struct_unpack(<<"I">>, Read(buf, pos, 4)))

AlternateTexture_pack(at) ==
  Prepend(PackOne("I", Len(at.name)) \o at.name,
          struct_pack(<<"s4", "i">>, <<at.texture, at.index>>))

RECURSIVE Model_MODS_loop(_, _, _, _)
RECURSIVE Model_MODS_append(_, _, _, _)

\* the loop of Model.MODS.parse over buf with count elements to go, then
\* assert not buf.read()
Model_MODS_loop(buf, pos, count, acc) ==
  IF count = 0
  THEN IF pos < Len(buf) THEN Raise("AssertionError", Len(buf)) ELSE Ok(acc, pos)
  ELSE Model_MODS_append(buf, count, acc, AlternateTexture_unpack(buf, pos))

Model_MODS_append(buf, count, acc, r) ==
  IF r.st # "ok" THEN r ELSE Model_MODS_loop(buf, r.pos, count - 1, Append(acc, r.val))

\* Model.MODS.parse from the elements unpacked out of the sized buffer on
Model_MODS_elements(after, elements) ==
  IF elements.st # "ok" THEN Raise(elements.st, after)
  ELSE Ok(Field("Model", "MODS", elements.val), after)

\* Model.MODS.parse from buf = BytesIO(raw_bytes.read(size - 4)) on
Model_MODS_buf(start, count, data) ==
  Model_MODS_elements(start + Len(data), Model_MODS_loop(data, 0, count, <<>>))

\* Model.MODS.parse from the unpacked size and count on
Model_MODS_sized(hdr, buf, pos) ==
  IF hdr.st # "ok" THEN Raise(hdr.st, Len(buf))
  ELSE Model_MODS_buf(pos + 6, hdr.vals[2], Read(buf, pos + 6, hdr.vals[1] - 4))

Model_MODS_parse(buf, pos) ==
  Model_MODS_sized(struct_unpack(<<"H", "I">>, Read(buf, pos, 6)), buf, pos)

RECURSIVE Model_MODS_join(_)
Model_MODS_join(ats) ==
  IF ats = <<>> THEN OkBytes(<<>>)
  ELSE JoinBytes(AlternateTexture_pack(Head(ats)), Model_MODS_join(Tail(ats)))

\* Model.MODS.unparse from the joined elements on
Model_MODS_emit(fld, alt_textures) ==
  IF alt_textures.st # "ok" THEN alt_textures
  ELSE Prepend(Encode("MODS"),
               AppendBytes(struct_pack(<<"H", "I">>,
                                       <<Len(alt_textures.bytes) + 4, Len(fld.v)>>),
                           alt_textures.bytes))

Model_MODS_unparse(fld) == Model_MODS_emit(fld, Model_MODS_join(fld.v))

Model_members == {"MODL", "MODB", "MODS"}

Model_parse_member(name, buf, pos) ==
  CASE name = "MODL" -> CStringRecord_parse("Model", name, buf, pos)
    [] name = "MODB" -> FormIDRecord_parse("Model", name, buf, pos)
    [] name = "MODS" -> Model_MODS_parse(buf, pos)

Destruction_members == {"DEST", "DSTD", "DSTF"}

Destruction_parse_member(name, buf, pos) ==
  CASE name = "DEST" -> Destruction_DEST_parse(buf, pos)
    [] name = "DSTD" -> Destruction_DSTD_parse(buf, pos)
    [] name = "DSTF" -> MarkerRecord_parse("Destruction", name, buf, pos)

(***************************************************************************)
(* Record dispatch: TES4.parse_subrecords and ACTI.parse_subrecords.       *)
(***************************************************************************)
\* the tags the TES4 loop tests for
TES4_tags == {"CNAM", "DATA", "DELE", "HEDR", "MAST", "OFST", "ONAM", "SCRN", "SNAM"}

\* the attributes of class TES4 that are field classes
TES4_classes == {"HEDR", "CNAM", "SNAM", "MAST", "DATA", "ONAM"}

TES4_field_parse(name, buf, pos) ==
  CASE name = "HEDR" -> TES4_HEDR_parse(buf, pos)
    [] name = "DATA" -> TES4_DATA_parse(buf, pos)
    [] name = "ONAM" -> TES4_ONAM_parse(buf, pos)
    [] OTHER -> CStringRecord_parse("TES4", name, buf, pos)

\* a loop that decodes a tag outside the table as a string field
TES4_dispatch_lenient(record_type, buf, pos) ==
  IF IsName(record_type) /\ Decode(record_type) \in TES4_tags \cap TES4_classes
  THEN TES4_field_parse(Decode(record_type), buf, pos)
  ELSE CStringRecord_parse("TES4", "ZZZZ", buf, pos)

\* one turn of the loop of TES4.parse_subrecords, the 4 bytes of the tag read
TES4_dispatch(record_type, buf, pos) ==
  IF IsName(record_type) /\ Decode(record_type) \in TES4_tags
  THEN IF Decode(record_type) \in TES4_classes
       THEN TES4_field_parse(Decode(record_type), buf, pos)
       ELSE Raise("AttributeError", pos)
  ELSE Raise("NotImplementedError", pos)

\* the tags ACTI routes to a class of its own
ACTI_tags == {"FULL", "INAM", "RNAM", "SCRI", "SNAM", "VNAM", "WNAM", "XATO"}

ACTI_field_parse(name, buf, pos) ==
  IF name \in {"FULL", "XATO"} THEN CStringRecord_parse("ACTI", name, buf, pos)
  ELSE FormIDRecord_parse("ACTI", name, buf, pos)

\* one turn of the loop of ACTI.parse_subrecords, the 4 bytes of the tag read
ACTI_dispatch(record_type, buf, pos) ==
  IF ~IsName(record_type) THEN Raise("NotImplementedError", pos)
  ELSE IF Decode(record_type) = "EDID" THEN CStringRecord_parse("subrecords", "EDID", buf, pos)
  ELSE IF Decode(record_type) = "OBND" THEN OBND_parse(buf, pos)
  ELSE IF Decode(record_type) \in ACTI_tags
  THEN ACTI_field_parse(Decode(record_type), buf, pos)
  ELSE IF Decode(record_type) \in Model_members
  THEN Model_parse_member(Decode(record_type), buf, pos)
  ELSE IF Decode(record_type) \in Destruction_members
  THEN Destruction_parse_member(Decode(record_type), buf, pos)
  ELSE Raise("NotImplementedError", pos)

(***************************************************************************)
(* PERK and the PerkEffect collection.                                     *)
(***************************************************************************)
\* StructRecord.parse after the size field is unpacked
StructRecord_parse_sized(owner, name, fmt, expected_size, buf, pos, size) ==
  IF size.st # "ok" THEN Raise(size.st, Len(buf))
  ELSE IF size.vals[1] # expected_size THEN Raise("ValueError", pos + 2)
  ELSE FromUnpack(owner, name, struct_unpack(fmt, Read(buf, pos + 2, expected_size)),
                  pos + 2 + expected_size, Min(pos + 2 + expected_size, Len(buf)))

StructRecord_parse(owner, name, fmt, expected_size, buf, pos) ==
  StructRecord_parse_sized(owner, name, fmt, expected_size, buf, pos,
                           struct_unpack(<<"H">>, Read(buf, pos, 2)))

\* StructRecord.unparse: the tag is the name of the class
StructRecord_unparse(fld, fmt) ==
  Prepend(Encode(fld.name) \o ToLE(calcsize(fmt), 2), struct_pack(fmt, fld.v))

\* Uint8Record, Int8Record and Uint16Record: code is the struct code
IntRecord_parse(owner, name, code, buf, pos) ==
  IF Read(buf, pos, 2) # <<CodeSize[code], 0>>
  THEN Raise("AssertionError", Min(pos + 2, Len(buf)))
  ELSE FromUnpack(owner, name, struct_unpack(<<code>>, Read(buf, pos + 2, CodeSize[code])),
                  pos + 2 + CodeSize[code], Min(pos + 2 + CodeSize[code], Len(buf)))

IntRecord_unparse(fld, code) ==
  Prepend(Encode(fld.name) \o ToLE(CodeSize[code], 2), struct_pack(<<code>>, fld.v))

\* the integer of bytes b, most significant first
RECURSIVE BE(_)
BE(b) == IF b = <<>> THEN 0 ELSE BE(SubSeq(b, 1, Len(b) - 1)) * 256 + b[Len(b)]

\* CTDA.parse after the size field: type, unused, comparison_value,
\* function, param1, param2, run_on, reference are read one after the other;
\* each struct.unpack raises when its read came short
CTDA_read(p, after) ==
  IF Len(p) < 24 THEN Raise("struct.error", after)
  ELSE Ok(Field("subrecords", "CTDA",
                <<p[1], SubSeq(p, 2, 4), SubSeq(p, 5, 8), LE(SubSeq(p, 9, 12)),
                  SubSeq(p, 13, 16), SubSeq(p, 17, 20), BE(SubSeq(p, 21, 24)),
                  SubSeq(p, 25, Len(p))>>), after)

CTDA_parse(buf, pos) ==
  IF Read(buf, pos, 2) # <<28, 0>> THEN Raise("AssertionError", Min(pos + 2, Len(buf)))
  ELSE CTDA_read(Read(buf, pos + 2, 28), Min(pos + 30, Len(buf)))

RECURSIVE Reverse(_)
Reverse(b) == IF b = <<>> THEN <<>> ELSE Append(Reverse(Tail(b)), Head(b))

CTDA_unparse(fld) ==
  IF fld.v[1] \notin 0..255 THEN RaiseBytes("struct.error")
  ELSE OkBytes(Encode("CTDA") \o <<28, 0>> \o <<fld.v[1]>> \o fld.v[2] \o fld.v[3]
                 \o ToLE(fld.v[4], 4) \o fld.v[5] \o fld.v[6]
                 \o Reverse(ToLE(fld.v[7], 4)) \o fld.v[8])

PRKE_format == <<"B", "B", "B">>

DATAQuestStage_format == <<"s4", "b", "s3">>

DATAEntryPoint_format == <<"B", "B", "B">>

PERK_DATA_format == <<"B", "B", "B", "B", "B">>

PerkEffect_members == {"PRKE", "DATA", "PRKC", "EPFT", "EPFD", "EPF2", "EPF3", "PRKF"}

\* the attributes of class PerkEffect that are field classes
PerkEffect_classes ==
  {"PRKE", "DATAQuestStage", "DATAAbility", "DATAEntryPoint", "PRKC", "EPFT", "EPFD",
   "EPF2", "EPF3", "PRKF"}

\* Collection.parse_member of PerkEffect: getattr(cls, record_type.decode())
PerkEffect_parse_member(name, buf, pos) ==
  IF name \notin PerkEffect_classes THEN Raise("AttributeError", pos)
  ELSE CASE name = "PRKE" -> StructRecord_parse("PerkEffect", name, PRKE_format, 3, buf, pos)
         [] name = "PRKC" -> IntRecord_parse("PerkEffect", name, "b", buf, pos)
         [] name = "EPFT" -> IntRecord_parse("PerkEffect", name, "B", buf, pos)
         [] name = "EPFD" -> FormIDRecord_parse("PerkEffect", name, buf, pos)
         [] name = "EPF2" -> CStringRecord_parse("PerkEffect", name, buf, pos)
         [] name = "EPF3" -> IntRecord_parse("PerkEffect", name, "H", buf, pos)
         [] name = "PRKF" -> MarkerRecord_parse("PerkEffect", name, buf, pos)

\* the parse of a PerkEffect class over BytesIO(struct.pack("<H", size) +
\* raw_bytes.read(size)); the outer stream is left behind what was read
PERK_DATA_effect(r, after) == [r EXCEPT !.pos = after]

\* PERK.DATA.parse after the size field is unpacked
PERK_DATA_parse_sized(size, buf, pos) ==
  IF size.st # "ok" THEN Raise(size.st, Len(buf))
  ELSE IF size.vals[1] = 8
  THEN PERK_DATA_effect(StructRecord_parse("PerkEffect", "DATAQuestStage",
                                           DATAQuestStage_format, 8,
                                           <<8, 0>> \o Read(buf, pos + 2, 8), 0),
                        Min(pos + 10, Len(buf)))
  ELSE IF size.vals[1] = 4
  THEN PERK_DATA_effect(FormIDRecord_parse("PerkEffect", "DATAAbility",
                                           <<4, 0>> \o Read(buf, pos + 2, 4), 0),
                        Min(pos + 6, Len(buf)))
  ELSE IF size.vals[1] = 3
  THEN PERK_DATA_effect(StructRecord_parse("PerkEffect", "DATAEntryPoint",
                                           DATAEntryPoint_format, 3,
                                           <<3, 0>> \o Read(buf, pos + 2, 3), 0),
                        Min(pos + 5, Len(buf)))
  ELSE IF size.vals[1] # 5 THEN Raise("ValueError", pos + 2)
  ELSE FromUnpack("PERK", "DATA", struct_unpack(PERK_DATA_format, Read(buf, pos + 2, 5)),
                  pos + 7, Min(pos + 7, Len(buf)))

\* a decoder that knows the layout of PERK.DATA alone
PERK_DATA_parse_plain(buf, pos) ==
  StructRecord_parse("PERK", "DATA", PERK_DATA_format, 5, buf, pos)

PERK_DATA_parse(buf, pos) ==
  PERK_DATA_parse_sized(struct_unpack(<<"H">>, Read(buf, pos, 2)), buf, pos)

\* the tags PERK routes to a class of its own
PERK_tags == {"FULL", "DESC", "ICON", "MICO", "DATA"}

PERK_field_parse(name, buf, pos) ==
  IF name = "DATA" THEN PERK_DATA_parse(buf, pos)
  ELSE CStringRecord_parse("PERK", name, buf, pos)

\* the loop of PERK.parse_subrecords with the test for the members of
\* PerkEffect tried before the test for the class's own tags
PERK_dispatch_members_first(record_type, buf, pos) ==
  IF ~IsName(record_type) THEN Raise("NotImplementedError", pos)
  ELSE IF Decode(record_type) = "EDID" THEN CStringRecord_parse("subrecords", "EDID", buf, pos)
  ELSE IF Decode(record_type) = "CTDA" THEN CTDA_parse(buf, pos)
  ELSE IF Decode(record_type) \in PerkEffect_members
  THEN PerkEffect_parse_member(Decode(record_type), buf, pos)
  ELSE IF Decode(record_type) \in PERK_tags
  THEN PERK_field_parse(Decode(record_type), buf, pos)
  ELSE Raise("NotImplementedError", pos)

\* one turn of the loop of PERK.parse_subrecords, the 4 bytes of the tag read
PERK_dispatch(record_type, buf, pos) ==
  IF ~IsName(record_type) THEN Raise("NotImplementedError", pos)
  ELSE IF Decode(record_type) = "EDID" THEN CStringRecord_parse("subrecords", "EDID", buf, pos)
  ELSE IF Decode(record_type) = "CTDA" THEN CTDA_parse(buf, pos)
  ELSE IF Decode(record_type) \in PERK_tags
  THEN PERK_field_parse(Decode(record_type), buf, pos)
  ELSE IF Decode(record_type) \in PerkEffect_members
  THEN PerkEffect_parse_member(Decode(record_type), buf, pos)
  ELSE Raise("NotImplementedError", pos)

\* the record classes of esp_parser.records with a model
RecordClasses == {"TES4", "ACTI", "PERK"}

\* a in b, of two bytes objects: a is a run of consecutive bytes of b
IsInfix(a, b) ==
  \E k \in 0..(Len(b) - Len(a)) : SubSeq(b, k + 1, k + Len(a)) = a

\* the tags NPC_ routes to a class of its own, of those the model names
NPC__tags == {"FULL", "INAM", "RNAM", "SCRI", "CNAM"}

NPC__field_parse(name, buf, pos) ==
  IF name = "FULL" THEN CStringRecord_parse("NPC_", name, buf, pos)
  ELSE FormIDRecord_parse("NPC_", name, buf, pos)

\* one turn of the loop of NPC_.parse_subrecords, the bytes of the tag read:
\* the first test is record_type in b"EDID"
NPC__dispatch(record_type, buf, pos) ==
  IF IsInfix(record_type, Encode("EDID"))
  THEN CStringRecord_parse("subrecords", "EDID", buf, pos)
  ELSE IF ~IsName(record_type) THEN Raise("NotImplementedError", pos)
  ELSE IF Decode(record_type) = "OBND" THEN OBND_parse(buf, pos)
  ELSE IF Decode(record_type) \in NPC__tags
  THEN NPC__field_parse(Decode(record_type), buf, pos)
  ELSE IF Decode(record_type) \in Model_members
  THEN Model_parse_member(Decode(record_type), buf, pos)
  ELSE Raise("NotImplementedError", pos)

\* the record classes Record.parse is called on
ParsedClasses == RecordClasses \cup {"NPC_"}

\* the record classes the client of the model builds records of
ClientClasses == {"TES4", "ACTI"}

\* one turn of the loop of cls.parse_subrecords
dispatch(cls, record_type, buf, pos) ==
  CASE cls = "TES4" -> TES4_dispatch(record_type, buf, pos)
    [] cls = "ACTI" -> ACTI_dispatch(record_type, buf, pos)
    [] cls = "PERK" -> PERK_dispatch(record_type, buf, pos)
    [] cls = "NPC_" -> NPC__dispatch(record_type, buf, pos)

RECURSIVE parse_subrecords(_, _, _, _)
RECURSIVE parse_subrecords_yield(_, _, _, _)

\* list(cls.parse_subrecords(raw_bytes)) from position pos, acc the fields
\* yielded so far; when an exception ends the loop, val is the fields
\* yielded before it and pos the position reached
parse_subrecords(cls, buf, pos, acc) ==
  IF Read(buf, pos, 4) = <<>> THEN Ok(acc, pos)
  ELSE parse_subrecords_yield(cls, buf, acc,
                              dispatch(cls, Read(buf, pos, 4), buf, Min(pos + 4, Len(buf))))

\* the yield of the field r, then the next turn of the loop
parse_subrecords_yield(cls, buf, acc, r) ==
  IF r.st # "ok" THEN [r EXCEPT !.val = acc]
  ELSE parse_subrecords(cls, buf, r.pos, Append(acc, r.val))

\* subrecord.unparse(), by the class of the value
field_unparse(fld) ==
  CASE fld.owner = "TES4" /\ fld.name = "HEDR" -> TES4_HEDR_unparse(fld)
    [] fld.owner = "TES4" /\ fld.name = "DATA" -> TES4_DATA_unparse(fld)
    [] fld.owner = "TES4" /\ fld.name = "ONAM" -> TES4_ONAM_unparse(fld)
    [] fld.owner = "TES4" /\ fld.name \in {"CNAM", "SNAM", "MAST"} -> CStringRecord_unparse(fld)
    [] fld.name \in {"EDID", "FULL", "XATO", "MODL"} -> CStringRecord_unparse(fld)
    [] fld.name \in {"DESC", "ICON", "MICO", "EPF2"} -> CStringRecord_unparse(fld)
    [] fld.name = "CTDA" -> CTDA_unparse(fld)
    [] fld.owner = "PERK" /\ fld.name = "DATA" -> StructRecord_unparse(fld, PERK_DATA_format)
    [] fld.name = "PRKE" -> StructRecord_unparse(fld, PRKE_format)
    [] fld.name = "DATAQuestStage" ->
         Prepend(Encode("DATA") \o <<8, 0>>, struct_pack(DATAQuestStage_format, fld.v))
    [] fld.name = "DATAAbility" -> OkBytes(Encode("DATA") \o <<4, 0>> \o fld.v)
    [] fld.name = "DATAEntryPoint" ->
         Prepend(Encode("DATA") \o <<3, 0>>, struct_pack(DATAEntryPoint_format, fld.v))
    [] fld.name = "PRKC" -> IntRecord_unparse(fld, "b")
    [] fld.name = "EPFT" -> IntRecord_unparse(fld, "B")
    [] fld.name = "EPF3" -> IntRecord_unparse(fld, "H")
    [] fld.name = "PRKF" -> MarkerRecord_unparse(fld)
    [] fld.name = "OBND" -> OBND_unparse(fld)
    [] fld.name = "MODS" -> Model_MODS_unparse(fld)
    [] fld.name = "DEST" -> Destruction_DEST_unparse(fld)
    [] fld.name = "DSTD" -> Destruction_DSTD_unparse(fld)
    [] fld.name = "DSTF" -> MarkerRecord_unparse(fld)
    [] OTHER -> FormIDRecord_unparse(fld)

\* b"".join(subrecord.unparse() for subrecord in self.data) of a record, or
\* the first exception
RECURSIVE fields_unparse(_)
fields_unparse(data) ==
  IF data = <<>> THEN OkBytes(<<>>)
  ELSE JoinBytes(field_unparse(Head(data)), fields_unparse(Tail(data)))

(***************************************************************************)
(* Record envelope: Record.parse and Record.unparse.                       *)
(***************************************************************************)
Record_format == <<"I", "I", "s4", "I", "H", "s2">>

RecordHeaderSize == 20

COMPRESSED == 262144

IsCompressed(flags) == (flags \div COMPRESSED) % 2 = 1

MkRecord(cls, type, flags, id, revision, version, unknown, data) ==
  [kind |-> "Record", cls |-> cls, type |-> type, flags |-> flags, id |-> id,
   revision |-> revision, version |-> version, unknown |-> unknown, data |-> data]

\* a parse that does not compare the decompressed length with the prefix
Record_check_size_skipped(decompressed_size, z) == z

\* assert len(decompressed_data) == decompressed_size
Record_check_size(decompressed_size, z) ==
  IF z.st # "ok" THEN z
  ELSE IF Len(z.bytes) # decompressed_size THEN RaiseBytes("AssertionError")
  ELSE z

\* the compressed body: the size prefix sz, then the zlib stream
Record_decompress(sz, body, data_size) ==
  IF sz.st # "ok" THEN RaiseBytes(sz.st)
  ELSE Record_check_size(sz.vals[1], zlib_decompress(Read(body, 4, data_size - 4)))

\* the buffer handed to parse_subrecords: the body, or the decompressed body
Record_raw_data(flags, data_size, body) ==
  IF IsCompressed(flags)
  THEN Record_decompress(struct_unpack(<<"I">>, Read(body, 0, 4)), body, data_size)
  ELSE OkBytes(body)

\* Record.parse from data = list(cls.parse_subrecords(raw_data)) on; h is
\* the unpacked header, after the stream position behind the body
Record_parse_fields(cls, record_type, h, after, sub) ==
  [(IF sub.st # "ok" THEN Raise(sub.st, after)
    ELSE Ok(MkRecord(cls, record_type, h[2], h[3], h[4], h[5], h[6], sub.val), after))
   EXCEPT !.sub = [n |-> Len(sub.val), at |-> sub.pos]]

\* Record.parse from the (decompressed) body raw on
Record_parse_body(cls, record_type, h, after, raw) ==
  IF raw.st # "ok" THEN Raise(raw.st, after)
  ELSE Record_parse_fields(cls, record_type, h, after,
                           parse_subrecords(cls, raw.bytes, 0, <<>>))

\* Record.parse from the unpacked header hdr on
Record_parse_header(cls, record_type, buf, pos, hdr) ==
  IF hdr.st # "ok" THEN Raise(hdr.st, Len(buf))
  ELSE Record_parse_body(cls, record_type, hdr.vals,
                         Min(pos + RecordHeaderSize + hdr.vals[1], Len(buf)),
                         Record_raw_data(hdr.vals[2], hdr.vals[1],
                                         Read(buf, pos + RecordHeaderSize, hdr.vals[1])))

\* cls.parse(record_type, raw_bytes), raw_bytes at position pos
Record_parse(cls, record_type, buf, pos) ==
  Record_parse_header(cls, record_type, buf, pos,
                      struct_unpack(Record_format, Read(buf, pos, RecordHeaderSize)))

\* the body Record.unparse emits after the header
Record_body(flags, fields) ==
  IF IsCompressed(flags) THEN PackOne("I", Len(fields)) \o zlib_compress(fields)
  ELSE fields

\* a data_size left at the length of the uncompressed field encodings
Record_data_size_stale(fields, body) == Len(fields)

\* data_size is len(body) of the body emitted, assigned again after compression
Record_data_size(fields, body) == Len(body)

\* Record.unparse from the packing of the header on
Record_emit(rec, fields, body) ==
  Prepend(rec.type,
          AppendBytes(struct_pack(Record_format,
                                  <<Record_data_size(fields, body), rec.flags, rec.id,
                                    rec.revision, rec.version, rec.unknown>>),
                      body))

\* Record.unparse from the joined field encodings on
Record_pack(rec, fields) ==
  IF fields.st # "ok" THEN fields
  ELSE Record_emit(rec, fields.bytes, Record_body(rec.flags, fields.bytes))

Record_unparse(rec) == Record_pack(rec, fields_unparse(rec.data))

(***************************************************************************)
(* Group codec and the stream driver.                                      *)
(***************************************************************************)
Group_format == <<"I", "s4", "I", "H", "s6">>

GroupHeaderSize == 20

\* the 4-byte tag plus the 20-byte header
GroupOverhead == 24

GroupTypeEnum == 0..10

MkGroup(label, group_type, stamp, unknown, data) ==
  [kind |-> "Group", label |-> label, group_type |-> group_type, stamp |-> stamp,
   unknown |-> unknown, data |-> data]

\* the tags parse_esp routes to a record class (those with a name in the model)
KnownRecordTypes == {"TES4", "ACTI", "CELL", "PERK", "NPC_"}

\* the arguments parse_esp passes to parse before raw_bytes: none
parse_esp_args(record_type) == <<>>

\* getattr(records, name).parse(*args, raw_bytes): Record.parse(cls,
\* record_type, raw_bytes) needs the tag before the stream
Call_parse(cls, args, buf, pos) ==
  IF Len(args) # 1 THEN Raise("TypeError", pos)
  ELSE Record_parse(cls, args[1], buf, pos)

\* the number of bytes Group.parse asks the stream for after the header
Group_group_size(total_size) == total_size - GroupOverhead

RECURSIVE parse_esp_list(_, _, _)
RECURSIVE parse_esp_collect(_, _, _)
RECURSIVE parse_esp_step(_, _)
RECURSIVE Group_parse(_, _)
RECURSIVE Group_parse_header(_, _, _)
RECURSIVE Group_parse_data(_, _, _)

\* one turn of the loop of parse_esp; st = "eof" is the break
\* (parse_esp_step_eager: a turn that leaves the stream at its end)
parse_esp_step_eager(buf, pos) ==
  IF Read(buf, pos, 4) = <<>> THEN [Ok(<<>>, pos) EXCEPT !.st = "eof"]
  ELSE IF Read(buf, pos, 4) = Encode("GRUP")
  THEN [Group_parse(buf, Min(pos + 4, Len(buf))) EXCEPT !.pos = Len(buf)]
  ELSE IF IsName(Read(buf, pos, 4)) /\ Decode(Read(buf, pos, 4)) \in KnownRecordTypes
  THEN Call_parse(Decode(Read(buf, pos, 4)), parse_esp_args(Read(buf, pos, 4)), buf,
                  Min(pos + 4, Len(buf)))
  ELSE Raise("NotImplementedError", Min(pos + 4, Len(buf)))

parse_esp_step(buf, pos) ==
  IF Read(buf, pos, 4) = <<>> THEN [Ok(<<>>, pos) EXCEPT !.st = "eof"]
  ELSE IF Read(buf, pos, 4) = Encode("GRUP") THEN Group_parse(buf, Min(pos + 4, Len(buf)))
  ELSE IF IsName(Read(buf, pos, 4)) /\ Decode(Read(buf, pos, 4)) \in KnownRecordTypes
  THEN Call_parse(Decode(Read(buf, pos, 4)), parse_esp_args(Read(buf, pos, 4)), buf,
                  Min(pos + 4, Len(buf)))
  ELSE Raise("NotImplementedError", Min(pos + 4, Len(buf)))

\* list(parse_esp(data)) from position pos, acc the entities yielded so far
parse_esp_list(buf, pos, acc) == parse_esp_collect(buf, acc, parse_esp_step(buf, pos))

\* the yield of the entity r, then the next turn of the loop
parse_esp_collect(buf, acc, r) ==
  IF r.st = "eof" THEN Ok(acc, r.pos)
  ELSE IF r.st # "ok" THEN r
  ELSE parse_esp_list(buf, r.pos, Append(acc, r.val))

\* Group.parse from the children parsed out of the body on
Group_parse_children(h, after, children) ==
  IF children.st # "ok" THEN Raise(children.st, after)
  ELSE Ok(MkGroup(h[2], h[3], h[4], h[5], children.val), after)

\* Group.parse from data = BytesIO(raw_bytes.read(group_size)) on
Group_parse_data(h, start, data) ==
  Group_parse_children(h, start + Len(data), parse_esp_list(data, 0, <<>>))

\* Group.parse from the unpacked header hdr on
\* (Group_parse_header_unchecked: group_type taken as the integer it is)
Group_parse_header_unchecked(buf, pos, hdr) ==
  IF hdr.st # "ok" THEN Raise(hdr.st, Len(buf))
  ELSE Group_parse_data(hdr.vals, pos + GroupHeaderSize,
                        Read(buf, pos + GroupHeaderSize, Group_group_size(hdr.vals[1])))

Group_parse_header(buf, pos, hdr) ==
  IF hdr.st # "ok" THEN Raise(hdr.st, Len(buf))
  ELSE IF hdr.vals[3] \notin GroupTypeEnum THEN Raise("ValueError", pos + GroupHeaderSize)
  ELSE Group_parse_data(hdr.vals, pos + GroupHeaderSize,
                        Read(buf, pos + GroupHeaderSize, Group_group_size(hdr.vals[1])))

Group_parse(buf, pos) ==
  Group_parse_header(buf, pos, struct_unpack(Group_format, Read(buf, pos, GroupHeaderSize)))

\* a total_size that leaves the tag out
Group_total_size_header(body) == Len(body) + GroupHeaderSize

Group_total_size(body) == Len(body) + GroupOverhead

\* Group.unparse from the joined encodings of the children on
Group_pack(e, body) ==
  IF body.st # "ok" THEN body
  ELSE Prepend(Encode("GRUP"),
               AppendBytes(struct_pack(Group_format,
                                       <<Group_total_size(body.bytes), e.label,
                                         e.group_type, e.stamp, e.unknown>>),
                           body.bytes))

RECURSIVE unparse(_)
RECURSIVE unparse_all(_)

\* e.unparse() of a Record or a Group
unparse(e) ==
  IF e.kind = "Record" THEN Record_unparse(e) ELSE Group_pack(e, unparse_all(e.data))

\* b"".join(e.unparse() for e in es), or the first exception
unparse_all(es) ==
  IF es = <<>> THEN OkBytes(<<>>)
  ELSE JoinBytes(unparse(Head(es)), unparse_all(Tail(es)))

(***************************************************************************)
(* The state machine.  A client builds a tree of Group and Record values   *)
(* (tree), serialises it (raw_bytes), the bytes may then be altered as an  *)
(* arbitrary input file would be, and are parsed: by iterating parse_esp   *)
(* (yielded, offset) or by a direct call of a record class's parse with    *)
(* the tag the caller has read (parsed).                                   *)
(***************************************************************************)
VARIABLES tree, raw_bytes, alteration, call, offset, yielded, parsed, subrecords,
          pc, error, args, edits

vars == <<tree, raw_bytes, alteration, call, offset, yielded, parsed, subrecords,
          pc, error, args, edits>>

NULL == <<0, 0, 0, 0>>

NoAlteration == [kind |-> "none", at |-> 0]

\* the field values the client draws from for a record of class cls
FieldValues(cls) ==
  IF cls = "TES4"
  THEN {Field("TES4", "HEDR", <<Float(235, 0), 5, NULL>>),
        Field("TES4", "CNAM", <<65>>),
        Field("TES4", "MAST", <<>>),
        Field("TES4", "DATA", <<8, 0, 0, 0, 0, 0, 0, 0, 0, 0>>),
        Field("TES4", "ONAM", <<(<<1, 0, 0, 1>>)>>)}
  ELSE {Field("subrecords", "EDID", <<66>>),
        Field("subrecords", "OBND", <<-1, 0, 0, 1, 0, 0>>),
        Field("ACTI", "SCRI", <<1, 0, 0, 1>>),
        Field("Model", "MODS", <<AlternateTexture(<<67>>, <<2, 0, 0, 1>>, -1)>>),
        Field("Destruction", "DSTF", 0)}

FlagValues == {0, COMPRESSED}

PokeValues == {0, 48}

\* entities plus fields of a tree
RECURSIVE CountNodes(_)
CountNodes(es) ==
  IF es = <<>> THEN 0
  ELSE 1 + (IF Head(es).kind = "Group" THEN CountNodes(Head(es).data)
            ELSE Len(Head(es).data))
         + CountNodes(Tail(es))

\* the tree with entity e appended at depth d of its last branch
RECURSIVE AppendAt(_, _, _)
AppendAt(es, d, e) ==
  IF d = 0 THEN Append(es, e)
  ELSE [es EXCEPT ![Len(es)].data = AppendAt(@, d - 1, e)]

\* d nested groups end the last branch of the tree
RECURSIVE CanAppendAt(_, _)
CanAppendAt(es, d) ==
  IF d = 0 THEN TRUE
  ELSE IF es = <<>> THEN FALSE
  ELSE IF es[Len(es)].kind # "Group" THEN FALSE
  ELSE CanAppendAt(es[Len(es)].data, d - 1)

\* the last entity of the last branch is a record
RECURSIVE LastIsRecord(_)
LastIsRecord(es) ==
  IF es = <<>> THEN FALSE
  ELSE IF es[Len(es)].kind = "Record" THEN TRUE
  ELSE LastIsRecord(es[Len(es)].data)

\* the class of the last record of the last branch
RECURSIVE LastRecordClass(_)
LastRecordClass(es) ==
  IF es[Len(es)].kind = "Record" THEN es[Len(es)].cls
  ELSE LastRecordClass(es[Len(es)].data)

RECURSIVE AppendField(_, _)
AppendField(es, fld) ==
  IF es[Len(es)].kind = "Record"
  THEN [es EXCEPT ![Len(es)].data = Append(@, fld)]
  ELSE [es EXCEPT ![Len(es)].data = AppendField(@, fld)]

\* TES4_0_94, the float32 nearest 0.94 as a float
TES4_0_94 == Float(1064346583, 0)

\* str.encode("UTF-8") of a string of code points below 2048
RECURSIVE Utf8(_)
Utf8(s) ==
  IF s = <<>> THEN <<>>
  ELSE (IF Head(s) < 128 THEN <<Head(s)>>
        ELSE <<192 + (Head(s) \div 64), 128 + (Head(s) % 64)>>) \o Utf8(Tail(s))

\* BytesRecordType.__new__(cls, cstring) with a str
BytesRecordType_new(owner, name, cstring) == Field(owner, name, Utf8(cstring))

\* a field list of MAST only
RECURSIVE create_tes4_masters_bare(_)
create_tes4_masters_bare(masters) ==
  IF masters = <<>> THEN <<>>
  ELSE <<BytesRecordType_new("TES4", "MAST", Head(masters))>>
         \o create_tes4_masters_bare(Tail(masters))

\* for master in masters: data.append(MAST(master)); data.append(DATA(...))
RECURSIVE create_tes4_masters(_)
create_tes4_masters(masters) ==
  IF masters = <<>> THEN <<>>
  ELSE <<BytesRecordType_new("TES4", "MAST", Head(masters)),
         Field("TES4", "DATA", <<8, 0, 0, 0, 0, 0, 0, 0, 0, 0>>)>>
         \o create_tes4_masters(Tail(masters))

\* create_tes4; description is <<>> for None and <<s>> for the string s
create_tes4(version, num_records, next_object_id, author, description, masters) ==
  MkRecord("TES4", Encode("TES4"), 0, NULL, 0, 15, <<0, 0>>,
           <<Field("TES4", "HEDR", <<version, num_records, next_object_id>>),
             BytesRecordType_new("TES4", "CNAM", author)>>
             \o (IF description # <<>>
                 THEN <<BytesRecordType_new("TES4", "SNAM", description[1])>>
                 ELSE <<>>)
             \o create_tes4_masters(masters))

\* the arguments the client draws from: TES4_0_94 and 0.94; "D" and a
\* string holding a NUL; None and a non-ASCII string; zero to two masters
VersionValues == {TES4_0_94, Float(1064346583, 1)}

AuthorValues == {<<68>>, <<65, 0, 66>>}

DescriptionValues == {<<>>, <<(<<233>>)>>}

MastersValues == {<<>>, <<(<<70>>)>>, <<(<<70>>), (<<71, 72>>)>>}

Init ==
  /\ tree = <<>>
  /\ raw_bytes = <<>>
  /\ alteration = NoAlteration
  /\ call = "none"
  /\ offset = 0
  /\ yielded = <<>>
  /\ parsed = <<>>
  /\ subrecords = NoSub
  /\ pc = "edit"
  /\ error = "none"
  /\ args = <<>>
  /\ edits = 0

\* Group(label, group_type, stamp) appended to the tree
AddGroup ==
  /\ pc = "edit"
  /\ CountNodes(tree) < MaxNodes
  /\ \E d \in 0..MaxDepth, gt \in {0, 10} :
       /\ CanAppendAt(tree, d)
       /\ tree' = AppendAt(tree, d,
                           MkGroup(Encode("CELL"), gt, 7, <<0, 0, 0, 0, 0, 0>>, <<>>))
  /\ args' = <<>>
  /\ UNCHANGED <<edits, raw_bytes, alteration, call, offset, yielded, parsed, subrecords,
                 pc, error>>

\* cls(type=b"...", flags=..., id=...) appended to the tree
AddRecord ==
  /\ pc = "edit"
  /\ CountNodes(tree) < MaxNodes
  /\ \E d \in 0..MaxDepth, flags \in FlagValues, cls \in ClientClasses :
       /\ CanAppendAt(tree, d)
       /\ tree' = AppendAt(tree, d,
                           MkRecord(cls, Encode(cls), flags, NULL, 0, 15,
                                    <<0, 0>>, <<>>))
  /\ args' = <<>>
  /\ UNCHANGED <<edits, raw_bytes, alteration, call, offset, yielded, parsed, subrecords,
                 pc, error>>

\* record.data.append(field)
AddField ==
  /\ pc = "edit"
  /\ CountNodes(tree) < MaxNodes
  /\ LastIsRecord(tree)
  /\ \E fld \in FieldValues(LastRecordClass(tree)) : tree' = AppendField(tree, fld)
  /\ args' = <<>>
  /\ UNCHANGED <<edits, raw_bytes, alteration, call, offset, yielded, parsed, subrecords,
                 pc, error>>

\* the client holds out, the bytes or the exception of the serialisation
Unparse_result(out) ==
  IF out.st = "ok"
  THEN /\ raw_bytes' = out.bytes
       /\ pc' = "bytes"
       /\ error' = error
  ELSE /\ raw_bytes' = raw_bytes
       /\ pc' = "Raised"
       /\ error' = out.st

\* b"".join(e.unparse() for e in tree)
Unparse ==
  /\ pc = "edit"
  /\ call' = "unparse"
  /\ Unparse_result(unparse_all(tree))
  /\ UNCHANGED <<edits, args, tree, alteration, offset, yielded, parsed, subrecords>>

\* the input file differs from the serialised tree in one byte
Poke ==
  /\ pc = "bytes"
  /\ alteration.kind = "none"
  /\ edits = 0
  /\ CountNodes(tree) <= MaxAlteredNodes
  /\ \E k \in 1..Len(raw_bytes), b \in PokeValues :
       /\ raw_bytes[k] # b
       /\ raw_bytes' = [raw_bytes EXCEPT ![k] = b]
       /\ alteration' = [kind |-> "poke", at |-> k]
  /\ UNCHANGED <<edits, args, tree, call, offset, yielded, parsed, subrecords, pc, error>>

\* the input file is the first n bytes of the serialised tree
Truncate ==
  /\ pc = "bytes"
  /\ alteration.kind = "none"
  /\ edits = 0
  /\ CountNodes(tree) <= MaxAlteredNodes
  /\ \E n \in 1..(Len(raw_bytes) - 1) :
       /\ raw_bytes' = SubSeq(raw_bytes, 1, n)
       /\ alteration' = [kind |-> "truncate", at |-> n]
  /\ UNCHANGED <<edits, args, tree, call, offset, yielded, parsed, subrecords, pc, error>>

\* the generator yields r.val, ends at the empty read, or raises
parse_esp_result(r) ==
  /\ offset' = r.pos
  /\ IF r.st = "ok"
     THEN /\ yielded' = Append(yielded, r.val)
          /\ pc' = "ExpectTag"
          /\ error' = error
     ELSE IF r.st = "eof"
     THEN /\ yielded' = yielded
          /\ pc' = "Done"
          /\ error' = error
     ELSE /\ yielded' = yielded
          /\ pc' = IF r.st = "hang" THEN "Hung" ELSE "Raised"
          /\ error' = r.st

\* next() on the generator parse_esp(raw_bytes)
parse_esp ==
  /\ pc \in {"bytes", "ExpectTag"}
  /\ call' = "parse_esp"
  /\ parse_esp_result(parse_esp_step(raw_bytes, offset))
  /\ UNCHANGED <<edits, args, tree, raw_bytes, alteration, parsed, subrecords>>

\* next() on the generator after it returned or raised: StopIteration, and
\* nothing is read
parse_esp_again ==
  /\ call = "parse_esp"
  /\ pc \in {"Done", "Raised", "Exhausted"}
  /\ pc' = "Exhausted"
  /\ error' = "StopIteration"
  /\ UNCHANGED <<edits, args, tree, raw_bytes, alteration, call, offset, yielded, parsed,
                 subrecords>>

\* the call returns the record r.val, raises, or does not return
Record_parse_result(r) ==
  /\ offset' = r.pos
  /\ subrecords' = r.sub
  /\ IF r.st = "ok"
     THEN /\ parsed' = <<r.val>>
          /\ pc' = "Parsed"
          /\ error' = error
     ELSE /\ parsed' = parsed
          /\ pc' = IF r.st = "hang" THEN "Hung" ELSE "Raised"
          /\ error' = r.st

\* a caller reads the 4-byte tag and calls the class of that name as
\* Record.parse is declared: cls.parse(record_type, raw_bytes)
Record_parse_call ==
  /\ pc = "bytes"
  /\ call' = "Record.parse"
  /\ IsName(Read(raw_bytes, 0, 4))
  /\ Decode(Read(raw_bytes, 0, 4)) \in ParsedClasses
  /\ Record_parse_result(Record_parse(Decode(Read(raw_bytes, 0, 4)),
                                      Read(raw_bytes, 0, 4), raw_bytes, 4))
  /\ UNCHANGED <<edits, args, tree, raw_bytes, alteration, yielded>>

\* TES4(type=b"TES4", flags=0, id=NULL, revision=0, version=15,
\*      data=[TES4.HEDR(0.94, 5, NULL)]); 0.94 lies above its nearest float32
ExampleRecord ==
  MkRecord("TES4", Encode("TES4"), 0, NULL, 0, 15, <<0, 0>>,
           <<Field("TES4", "HEDR", <<Float(1064346583, 1), 5, NULL>>)>>)

\* the body lengths a hand-written header declares: the payload alone, or
\* the tag, the size field and the payload
ExampleBodyLengths == {12, 18}

\* b"TES4" + struct.pack("<II4sIH2s", body_length, 0, NULL, 0, 15, b"\0\0")
\*   + b"HEDR\x0c\x00" + struct.pack("<fI4s", 0.94, 5, NULL)
ExampleBytes(body_length) ==
  Encode("TES4")
    \o struct_pack(Record_format, <<body_length, 0, NULL, 0, 15, <<0, 0>>>>).bytes
    \o Encode("HEDR") \o <<12, 0>>
    \o struct_pack(HEDR_format, ExampleRecord.data[1].v).bytes

\* the input file is written by hand rather than by unparse: tree is the
\* record its writer means
ReadExample ==
  /\ pc = "edit"
  /\ tree = <<>>
  /\ \E body_length \in ExampleBodyLengths :
       /\ raw_bytes' = ExampleBytes(body_length)
       /\ alteration' = [kind |-> "example", at |-> body_length]
  /\ tree' = <<ExampleRecord>>
  /\ pc' = "bytes"
  /\ UNCHANGED <<edits, args, call, offset, yielded, parsed, subrecords, error>>

\* the tags the loop of cls.parse_subrecords tests for
AcceptedTags(cls) ==
  CASE cls = "TES4" -> TES4_tags
    [] cls = "ACTI" ->
         {"EDID", "OBND"} \cup ACTI_tags \cup Model_members \cup Destruction_members
    [] cls = "PERK" -> {"EDID", "CTDA"} \cup PERK_tags \cup PerkEffect_members

\* what follows the tag of the one field of a file from another writer: a
\* size field of 0, a size field of 1 and a NUL, or a size field of 5 and
\* five bytes that end with a NUL, or a size field of 3, 4 or 8 and as many
\* bytes
TaggedPayloads == {<<0, 0>>, <<1, 0, 0>>, <<5, 0, 1, 1, 1, 1, 0>>,
                   <<3, 0, 1, 2, 3>>, <<4, 0, 1, 0, 0, 1>>,
                   <<8, 0, 1, 0, 0, 1, 255, 0, 0, 0>>}

\* the input file is a record of class cls from another writer, holding one
\* field with a tag the class's loop accepts
ReadTagged ==
  /\ pc = "edit"
  /\ tree = <<>>
  /\ \E cls \in RecordClasses, payload \in TaggedPayloads : \E tag \in AcceptedTags(cls) :
       /\ tree' = <<MkRecord(cls, Encode(cls), 0, NULL, 0, 15, <<0, 0>>,
                             <<Field(cls, tag, payload)>>)>>
       /\ raw_bytes' = Encode(cls)
                         \o struct_pack(Record_format,
                                        <<4 + Len(payload), 0, NULL, 0, 15, <<0, 0>>>>).bytes
                         \o Encode(tag) \o payload
  /\ alteration' = [kind |-> "tagged", at |-> 0]
  /\ pc' = "bytes"
  /\ UNCHANGED <<edits, args, call, offset, yielded, parsed, subrecords, error>>

\* the first 1 to 3 bytes of the tags EDID, OBND and FULL, and the bytes
\* b"DID"
ShortTags == {<<69>>, <<69, 68>>, <<69, 68, 73>>, <<68, 73, 68>>, <<79, 66>>, <<70, 85, 76>>}

\* the input file is a record of class cls from another writer whose body
\* is 1 to 3 bytes
ReadShortTag ==
  /\ pc = "edit"
  /\ tree = <<>>
  /\ \E cls \in ParsedClasses, short \in ShortTags :
       /\ tree' = <<MkRecord(cls, Encode(cls), 0, NULL, 0, 15, <<0, 0>>, <<>>)>>
       /\ raw_bytes' = Encode(cls)
                         \o struct_pack(Record_format,
                                        <<Len(short), 0, NULL, 0, 15, <<0, 0>>>>).bytes
                         \o short
       /\ alteration' = [kind |-> "short", at |-> Len(short)]
  /\ pc' = "bytes"
  /\ UNCHANGED <<edits, args, call, offset, yielded, parsed, subrecords, error>>

\* tree = [create_tes4(...)]; args holds the arguments while the tree is
\* the one the call returned
Create_tes4 ==
  /\ pc = "edit"
  /\ tree = <<>>
  /\ \E version \in VersionValues, author \in AuthorValues,
        description \in DescriptionValues, masters \in MastersValues :
       /\ args' = <<[version |-> version, num_records |-> 45,
                     next_object_id |-> <<108, 21, 0, 0>>, author |-> author,
                     description |-> description, masters |-> masters]>>
       /\ tree' = <<create_tes4(version, 45, <<108, 21, 0, 0>>, author, description,
                                masters)>>
  /\ call' = "create_tes4"
  /\ UNCHANGED <<edits, raw_bytes, alteration, offset, yielded, parsed, subrecords, pc, error>>

\* record.data.append(fld), record.data.pop() or record.data[0] = fld
EditedRecord(rec, op, fld) ==
  CASE op = "append" -> [rec EXCEPT !.data = Append(@, fld)]
    [] op = "pop" -> [rec EXCEPT !.data = SubSeq(@, 1, Len(@) - 1)]
    [] OTHER -> [rec EXCEPT !.data[1] = fld]

\* the field values an edit draws from: those of FieldValues, and a form ID
\* constructed from two bytes (BytesRecordType.__new__ takes any bytes)
EditValues(cls) ==
  IF cls = "ACTI" THEN FieldValues(cls) \cup {Field("ACTI", "SCRI", <<1, 0>>)}
  ELSE FieldValues(cls)

\* the client edits the fields of the record a parse returned; the edited
\* record is the tree it goes on with
EditRecord ==
  /\ pc = "Parsed"
  /\ edits < MaxEdits
  /\ alteration.kind = "none"
  /\ \E op \in {"append", "pop", "replace"}, fld \in EditValues(parsed[1].cls) :
       /\ IF op = "append" THEN 1 + Len(parsed[1].data) < MaxNodes
          ELSE parsed[1].data # <<>>
       /\ tree' = <<EditedRecord(parsed[1], op, fld)>>
  /\ raw_bytes' = <<>>
  /\ alteration' = NoAlteration
  /\ call' = "edit"
  /\ offset' = 0
  /\ yielded' = <<>>
  /\ parsed' = <<>>
  /\ subrecords' = NoSub
  /\ pc' = "edit"
  /\ error' = "none"
  /\ args' = <<>>
  /\ edits' = edits + 1

\* group.data.append(child) or group.data.pop() on the last entity of es
EditedGroup(es, op, child) ==
  IF op = "append" THEN AppendAt(es, 1, child)
  ELSE [es EXCEPT ![Len(es)].data = SubSeq(@, 1, Len(@) - 1)]

\* the client edits the children of the last group parse_esp yielded; the
\* edited entities are the tree it goes on with
EditGroup ==
  /\ pc = "Done"
  /\ call = "parse_esp"
  /\ edits < MaxEdits
  /\ alteration.kind = "none"
  /\ yielded # <<>>
  /\ yielded[Len(yielded)].kind = "Group"
  /\ \E op \in {"append", "pop"},
        child \in {MkGroup(Encode("CELL"), 0, 7, <<0, 0, 0, 0, 0, 0>>, <<>>),
                   MkRecord("TES4", Encode("TES4"), 0, NULL, 0, 15, <<0, 0>>, <<>>)} :
       /\ IF op = "append" THEN CountNodes(yielded) < MaxNodes
          ELSE yielded[Len(yielded)].data # <<>>
       /\ tree' = EditedGroup(yielded, op, child)
  /\ raw_bytes' = <<>>
  /\ alteration' = NoAlteration
  /\ call' = "edit"
  /\ offset' = 0
  /\ yielded' = <<>>
  /\ parsed' = <<>>
  /\ subrecords' = NoSub
  /\ pc' = "edit"
  /\ error' = "none"
  /\ args' = <<>>
  /\ edits' = edits + 1

(***************************************************************************)
(* Field codecs called on their own: cls.parse(BytesIO(payload)) and       *)
(* value.unparse(), outside any record.                                    *)
(***************************************************************************)
\* the loop of CELL.XCLR.parse: n times raw_bytes.read(4), whatever comes
RECURSIVE CELL_XCLR_read(_, _, _)
CELL_XCLR_read(n, buf, pos) ==
  IF n = 0 THEN <<>>
  ELSE <<Read(buf, pos, 4)>> \o CELL_XCLR_read(n - 1, buf, Min(pos + 4, Len(buf)))

\* a decoder that takes as many whole elements as the size field allows
CELL_XCLR_sized_lenient(hdr, buf, pos) ==
  IF hdr.st # "ok" THEN Raise(hdr.st, Len(buf))
  ELSE Ok(Field("CELL", "XCLR", CELL_XCLR_read(hdr.vals[1] \div 4, buf, pos + 2)),
          Min(pos + 2 + 4 * (hdr.vals[1] \div 4), Len(buf)))

CELL_XCLR_sized(hdr, buf, pos) ==
  IF hdr.st # "ok" THEN Raise(hdr.st, Len(buf))
  ELSE IF hdr.vals[1] % 4 # 0 THEN Raise("AssertionError", pos + 2)
  ELSE Ok(Field("CELL", "XCLR", CELL_XCLR_read(hdr.vals[1] \div 4, buf, pos + 2)),
          Min(pos + 2 + hdr.vals[1], Len(buf)))

CELL_XCLR_parse(buf, pos) ==
  CELL_XCLR_sized(struct_unpack(<<"H">>, Read(buf, pos, 2)), buf, pos)

\* CELL.XCLR.unparse: the size written is len(self) * 4
CELL_XCLR_unparse(fld) ==
  Prepend(Encode("XCLR"),
          AppendBytes(struct_pack(<<"H">>, <<Len(fld.v) * 4>>), Join(fld.v)))

\* NAVI.NVCI.parse after the size field is unpacked: the assert comes before
\* the read
NAVI_NVCI_sized(hdr, buf, pos) ==
  IF hdr.st # "ok" THEN Raise(hdr.st, Len(buf))
  ELSE IF hdr.vals[1] % 4 # 0 THEN Raise("AssertionError", pos + 2)
  ELSE IF Len(Read(buf, pos + 2, hdr.vals[1])) # hdr.vals[1]
  THEN Raise("struct.error", Len(buf))
  ELSE Ok(Field("NAVI", "NVCI", Chunks4(Read(buf, pos + 2, hdr.vals[1]))),
          pos + 2 + hdr.vals[1])

NAVI_NVCI_parse(buf, pos) ==
  NAVI_NVCI_sized(struct_unpack(<<"H">>, Read(buf, pos, 2)), buf, pos)

NAVI_NVCI_unparse(fld) ==
  IF Len(Join(fld.v)) # Len(fld.v) * 4 THEN RaiseBytes("AssertionError")
  ELSE Prepend(Encode("NVCI"),
               AppendBytes(struct_pack(<<"H">>, <<Len(Join(fld.v))>>), Join(fld.v)))

NvvxVertex_format == <<"f", "f", "f">>

\* the loop of NAVM.NVVX.parse: count times NvvxVertex.unpack over
\* BytesIO(raw_bytes.read(12)); acc holds the vertices read so far
RECURSIVE NAVM_NVVX_read(_, _, _, _)
NAVM_NVVX_read(count, buf, pos, acc) ==
  IF count = 0 THEN Ok(Field("NAVM", "NVVX", acc), pos)
  ELSE IF Len(Read(buf, pos, 12)) # 12 THEN Raise("struct.error", Len(buf))
  ELSE NAVM_NVVX_read(count - 1, buf, pos + 12,
                      Append(acc, struct_unpack(NvvxVertex_format, Read(buf, pos, 12)).vals))

NAVM_NVVX_sized(hdr, buf, pos) ==
  IF hdr.st # "ok" THEN Raise(hdr.st, Len(buf))
  ELSE IF hdr.vals[1] % 12 # 0 THEN Raise("AssertionError", pos + 2)
  ELSE NAVM_NVVX_read(hdr.vals[1] \div 12, buf, pos + 2, <<>>)

NAVM_NVVX_parse(buf, pos) ==
  NAVM_NVVX_sized(struct_unpack(<<"H">>, Read(buf, pos, 2)), buf, pos)

\* b"".join(di.pack() for di in self)
RECURSIVE NAVM_NVVX_body(_)
NAVM_NVVX_body(v) ==
  IF v = <<>> THEN <<>>
  ELSE struct_pack(NvvxVertex_format, Head(v)).bytes \o NAVM_NVVX_body(Tail(v))

NAVM_NVVX_unparse(fld) ==
  Prepend(Encode("NVVX"),
          AppendBytes(struct_pack(<<"H">>, <<Len(NAVM_NVVX_body(fld.v))>>),
                      NAVM_NVVX_body(fld.v)))

\* RawBytesRecord.parse after the size field is unpacked
RawBytesRecord_sized(owner, name, hdr, buf, pos) ==
  IF hdr.st # "ok" THEN Raise(hdr.st, Len(buf))
  ELSE Ok(Field(owner, name, Read(buf, pos + 2, hdr.vals[1])),
          Min(pos + 2 + hdr.vals[1], Len(buf)))

RawBytesRecord_parse(owner, name, buf, pos) ==
  RawBytesRecord_sized(owner, name, struct_unpack(<<"H">>, Read(buf, pos, 2)), buf, pos)

RawBytesRecord_unparse(fld) ==
  Prepend(Encode(fld.name), AppendBytes(struct_pack(<<"H">>, <<Len(fld.v)>>), fld.v))

\* NOTE.TNAM.parse after the size field is unpacked: a size of 4 is a form
\* ID, any other size a string read up to its NUL
NOTE_TNAM_sized(hdr, buf, pos) ==
  IF hdr.st # "ok" THEN Raise(hdr.st, Len(buf))
  ELSE IF hdr.vals[1] = 4
  THEN Ok(Field("NOTE", "TNAM", Read(buf, pos + 2, 4)), Min(pos + 6, Len(buf)))
  ELSE CStringRecord_loop("NOTE", "TNAM", buf, pos + 2, FirstNul(buf, pos + 2))

NOTE_TNAM_parse(buf, pos) ==
  NOTE_TNAM_sized(struct_unpack(<<"H">>, Read(buf, pos, 2)), buf, pos)

NOTE_TNAM_unparse(fld) ==
  IF Len(fld.v) = 4
  THEN Prepend(Encode("TNAM"), AppendBytes(struct_pack(<<"H">>, <<Len(fld.v)>>), fld.v))
  ELSE Prepend(Encode("TNAM"),
               AppendBytes(struct_pack(<<"H">>, <<Len(fld.v) + 1>>), fld.v \o <<0>>))

\* the parse of the class owner.name: PerkEffect.EPFT is a Uint8Record,
\* PRKC an Int8Record, EPF3 a Uint16Record, QUST.INDX an Int16Record,
\* QUST.QOBJ an Int32Record, NAVI.NVER a Uint32Record
codec_parse(owner, name, buf, pos) ==
  CASE name = "EPFT" -> IntRecord_parse(owner, name, "B", buf, pos)
    [] name = "PRKC" -> IntRecord_parse(owner, name, "b", buf, pos)
    [] name = "EPF3" -> IntRecord_parse(owner, name, "H", buf, pos)
    [] name = "INDX" -> IntRecord_parse(owner, name, "h", buf, pos)
    [] name = "QOBJ" -> IntRecord_parse(owner, name, "i", buf, pos)
    [] name = "NVER" -> IntRecord_parse(owner, name, "I", buf, pos)
    [] name = "XCLR" -> CELL_XCLR_parse(buf, pos)
    [] name = "ONAM" -> TES4_ONAM_parse(buf, pos)
    [] name = "NVCI" -> NAVI_NVCI_parse(buf, pos)
    [] name = "NVVX" -> NAVM_NVVX_parse(buf, pos)
    [] name = "TNAM" -> NOTE_TNAM_parse(buf, pos)
    [] name = "XRGD" -> RawBytesRecord_parse(owner, name, buf, pos)

\* the unparse of the class of fld; Int16Record.unparse packs its value
\* with "<H"
codec_unparse(fld) ==
  CASE fld.name = "INDX" -> IntRecord_unparse(fld, "H")
    [] fld.name = "QOBJ" -> IntRecord_unparse(fld, "i")
    [] fld.name = "NVER" -> IntRecord_unparse(fld, "I")
    [] fld.name = "XCLR" -> CELL_XCLR_unparse(fld)
    [] fld.name = "NVCI" -> NAVI_NVCI_unparse(fld)
    [] fld.name = "NVVX" -> NAVM_NVVX_unparse(fld)
    [] fld.name = "TNAM" -> NOTE_TNAM_unparse(fld)
    [] fld.name = "XRGD" -> RawBytesRecord_unparse(fld)
    [] OTHER -> field_unparse(fld)

\* the values the client constructs: the ends of the range of each integer
\* class (of Uint32Record, the ends of its lower half)
CodecValues ==
  {Field("PerkEffect", "EPFT", <<v>>) : v \in {0, 255}}
    \cup {Field("PerkEffect", "PRKC", <<v>>) : v \in {-128, 127}}
    \cup {Field("PerkEffect", "EPF3", <<v>>) : v \in {0, 65535}}
    \cup {Field("QUST", "INDX", <<v>>) : v \in {-32768, -1, 0, 32767}}
    \cup {Field("QUST", "QOBJ", <<v>>) : v \in {-2147483647, -1, 2147483647}}
    \cup {Field("NAVI", "NVER", <<v>>) : v \in {0, 2147483647}}
    \cup {Field(c[1], c[2], v) :
            c \in {<<"CELL", "XCLR">>, <<"TES4", "ONAM">>, <<"NAVI", "NVCI">>},
            v \in {<<>>, <<(<<2, 0, 0, 1>>), <<1, 0, 0, 1>>>>}}
    \cup {Field("NOTE", "TNAM", [k \in 1..n |-> 64 + k]) : n \in 0..5}
    \cup {Field("REFR", "XRGD", v) : v \in {<<>>, <<0, 7, 0>>}}
    \cup {Field("NAVM", "NVVX", v) :
            v \in {<<>>, <<(<<Float(2, 0), Float(1, 0), Float(0, 0)>>),
                           <<Float(1, 0), Float(0, 0), Float(0, 0)>>>>}}

\* size fields of 0, 4, 6, 8, 12 and 24, each followed by as many bytes
ArrayPayloads ==
  {<<n, 0>> \o [k \in 1..n |-> k] : n \in {0, 4, 6, 8, 12, 24}}

\* what the client hands to a parse: the class, and the bytes after the tag
CodecInputs ==
  {[fld |-> Field("QUST", "INDX", NULL), payload |-> <<2, 0>> \o p] :
     p \in {<<0, 0>>, <<255, 127>>, <<0, 128>>, <<255, 255>>}}
    \cup {[fld |-> Field(c[1], c[2], NULL), payload |-> p] :
            c \in {<<"CELL", "XCLR">>, <<"TES4", "ONAM">>, <<"NAVI", "NVCI">>,
                   <<"NAVM", "NVVX">>},
            p \in ArrayPayloads}
    \cup {[fld |-> Field("REFR", "XRGD", NULL), payload |-> p] :
            p \in {<<0, 0>>, <<3, 0, 0, 7, 0>>, <<3, 0, 0, 7, 0, 69, 68, 73, 68>>}}

\* the parse of the bytes after the tag of an encoding, or its exception
codec_reparse(fld, out) ==
  IF out.st # "ok" THEN Raise(out.st, 0)
  ELSE codec_parse(fld.owner, fld.name, SubSeq(out.bytes, 5, Len(out.bytes)), 0)

\* the encoding of what a parse returned, or its exception
codec_reunparse(back) ==
  IF back.st # "ok" THEN RaiseBytes(back.st) ELSE codec_unparse(back.val)

Codec_result(c, fld, payload, out, back) ==
  /\ call' = c
  /\ raw_bytes' = payload
  /\ parsed' = <<[fld |-> fld, out |-> out, back |-> back]>>
  /\ pc' = "codec"
  /\ UNCHANGED <<tree, alteration, offset, yielded, args, subrecords, error, edits>>

Codec_unparse_result(fld, out) ==
  Codec_result("codec.unparse", fld, <<>>, out, codec_reparse(fld, out))

\* value.unparse(), then cls.parse on the bytes after the tag
Codec_unparse_call ==
  /\ pc = "edit"
  /\ tree = <<>>
  /\ \E fld \in CodecValues : Codec_unparse_result(fld, codec_unparse(fld))

Codec_parse_result(in, back) ==
  Codec_result("codec.parse", in.fld, in.payload, codec_reunparse(back), back)

\* cls.parse(BytesIO(payload)), then unparse() of the value
Codec_parse_call ==
  /\ pc = "edit"
  /\ tree = <<>>
  /\ \E in \in CodecInputs :
       Codec_parse_result(in, codec_parse(in.fld.owner, in.fld.name, in.payload, 0))

Next ==
  \/ ReadShortTag
  \/ Codec_unparse_call
  \/ Codec_parse_call
  \/ ReadTagged
  \/ Create_tes4
  \/ ReadExample
  \/ AddGroup
  \/ AddRecord
  \/ AddField
  \/ Unparse
  \/ Poke
  \/ Truncate
  \/ parse_esp
  \/ parse_esp_again
  \/ Record_parse_call
  \/ EditRecord
  \/ EditGroup

Spec == Init /\ [][Next]_vars

(***************************************************************************)
(* Properties.                                                             *)
(***************************************************************************)
\* the stream before any alteration is the serialised tree
Unaltered == alteration.kind = "none"

\* C1: whenever parse_esp has parsed a buffer to completion without error,
\* the concatenation of unparse() of the entities it yielded, in yield
\* order, is that buffer byte for byte.
C1_RoundTripBytes ==
  pc = "Done" => unparse_all(yielded) = OkBytes(raw_bytes)

\* C2: parsing the bytes produced by r.unparse(), r a record of a supported
\* type holding valid field values, returns a record equal to r.
C2_RoundTripRecord ==
  (call = "Record.parse" /\ Unaltered) => (pc = "Parsed" /\ parsed = <<tree[1]>>)

\* C3: over a stream that is the concatenation of N well-formed top-level
\* entities parse_esp raises nothing and has yielded exactly N entities when
\* it stops at the empty read.
C3_YieldsEveryEntity ==
  (call = "parse_esp" /\ Unaltered) =>
    /\ pc \notin {"Raised", "Hung"}
    /\ Len(yielded) <= Len(tree)
    /\ pc = "Done" => Len(yielded) = Len(tree)

(***************************************************************************)
(* What the properties below read off the tree and the stream.             *)
(***************************************************************************)
Max(a, b) == IF a > b THEN a ELSE b

\* the Group and Record values of a sequence of entities, at every depth
RECURSIVE Entities(_)
Entities(es) ==
  IF es = <<>> THEN {}
  ELSE {Head(es)}
         \cup (IF Head(es).kind = "Group" THEN Entities(Head(es).data) ELSE {})
         \cup Entities(Tail(es))

Groups(es) == {e \in Entities(es) : e.kind = "Group"}

Records(es) == {e \in Entities(es) : e.kind = "Record"}

\* the sum of the lengths of the serialisations of the entities es
RECURSIVE UnparsedLen(_)
UnparsedLen(es) ==
  IF es = <<>> THEN 0 ELSE Len(unparse(Head(es)).bytes) + UnparsedLen(Tail(es))

\* the offsets in the serialisation of es (which starts at offset base) at
\* which the tag of an entity starts, at every depth
RECURSIVE TagOffsets(_, _)
TagOffsets(es, base) ==
  IF es = <<>> THEN {}
  ELSE {base}
         \cup (IF Head(es).kind = "Group" THEN TagOffsets(Head(es).data, base + 24) ELSE {})
         \cup TagOffsets(Tail(es), base + Len(unparse(Head(es)).bytes))

\* the number of leading entities of es serialised whole in the first n bytes
RECURSIVE WholeBefore(_, _)
WholeBefore(es, n) ==
  IF es = <<>> THEN 0
  ELSE IF Len(unparse(Head(es)).bytes) > n THEN 0
  ELSE 1 + WholeBefore(Tail(es), n - Len(unparse(Head(es)).bytes))

\* the offset in a record's body at which the encoding of its i-th field starts
RECURSIVE FieldStart(_, _)
FieldStart(rec, i) ==
  IF i = 1 THEN 0
  ELSE FieldStart(rec, i - 1) + Len(field_unparse(rec.data[i - 1]).bytes)

\* the tag of the i-th field in the body of the first record of the stream
\* as Record.parse sees it: in the stream, or in the decompressed body
BodyTag(i) ==
  IF IsCompressed(tree[1].flags) THEN SubSeq(field_unparse(tree[1].data[i]).bytes, 1, 4)
  ELSE SubSeq(raw_bytes, 24 + FieldStart(tree[1], i) + 1, 24 + FieldStart(tree[1], i) + 4)

\* tag is in the dispatch table of the record class cls
InTable(cls, tag) ==
  IF cls = "TES4"
  THEN tag \in {Encode(n) : n \in {"CNAM", "DATA", "DELE", "HEDR", "MAST", "OFST", "ONAM",
                                  "SCRN", "SNAM"}}
  ELSE tag \in {Encode(n) : n \in {"EDID", "OBND", "FULL", "INAM", "RNAM", "SCRI", "SNAM",
                                  "VNAM", "WNAM", "XATO", "MODL", "MODB", "MODS", "DEST",
                                  "DSTD", "DSTF"}}

HasNul(s) == \E k \in 1..Len(s) : s[k] = 0

\* the encoding of fld is read back whole: a string field holds no NUL
ReadWhole(fld) ==
  \/ ~(\/ fld.owner = "TES4" /\ fld.name \in {"CNAM", "SNAM", "MAST"}
       \/ fld.name \in {"EDID", "FULL", "XATO", "MODL"})
  \/ ~HasNul(fld.v)

\* the stream holds the record tree[1], whole but for at most the tag of its
\* j-th field, and that tag is the first of the body outside the table of
\* the record's class
UnsupportedFieldTag(j) ==
  /\ call = "Record.parse"
  /\ j \in 1..Len(tree[1].data)
  /\ \A i \in 1..(j - 1) : ReadWhole(tree[1].data[i])
  /\ \/ Unaltered
     \/ /\ alteration.kind = "poke"
        /\ ~IsCompressed(tree[1].flags)
        /\ alteration.at \in (24 + FieldStart(tree[1], j) + 1)..(24 + FieldStart(tree[1], j) + 4)
  /\ ~InTable(tree[1].cls, BodyTag(j))
  /\ \A i \in 1..(j - 1) : InTable(tree[1].cls, BodyTag(i))

PokedEntityTag ==
  /\ alteration.kind = "poke"
  /\ \E t \in TagOffsets(tree, 0) : alteration.at \in (t + 1)..(t + 4)

\* C5: when the tag of the k-th top-level entity, or of an entity nested in
\* it, is neither GRUP nor a known record type, parse_esp yields the k-1
\* entities before it and no other, and then raises NotImplementedError.
C5_UnsupportedEntityTag ==
  (call = "parse_esp" /\ PokedEntityTag) =>
    /\ Len(yielded) <= WholeBefore(tree, alteration.at - 1)
    /\ pc \notin {"Done", "Hung"}
    /\ pc = "Raised" =>
         /\ error = "NotImplementedError"
         /\ Len(yielded) = WholeBefore(tree, alteration.at - 1)

\* the stream is cut inside a top-level entity
TruncatedInsideEntity ==
  /\ alteration.kind = "truncate"
  /\ UnparsedLen(SubSeq(tree, 1, WholeBefore(tree, alteration.at))) # alteration.at

\* C6: over a stream cut inside an entity parse_esp does not come to its
\* clean end, and yields no entity other than those whole before the cut.
C6_TruncatedStream ==
  (call = "parse_esp" /\ TruncatedInsideEntity) =>
    /\ pc \notin {"Done", "Hung"}
    /\ Len(yielded) <= WholeBefore(tree, alteration.at)

\* out is the serialisation of group g: tag, total_size, length
GroupLayout(g, out) ==
  out.st = "ok" =>
    /\ SubSeq(out.bytes, 1, 4) = <<71, 82, 85, 80>>
    /\ LE(SubSeq(out.bytes, 5, 8)) = 24 + UnparsedLen(g.data)
    /\ Len(out.bytes) = LE(SubSeq(out.bytes, 5, 8))
    /\ g.data = <<>> => Len(out.bytes) = 24

\* C7: the serialisation of every group, of the tree the client has
\* serialised or yielded by parse_esp, starts with GRUP, declares a
\* total_size of 24 plus the lengths of its children's serialisations, and
\* is total_size bytes long; it is 24 bytes long when the group has no
\* children.
C7_GroupTotalSize ==
  /\ (call = "unparse" /\ pc = "bytes" /\ Unaltered) =>
       \A g \in Groups(tree) : GroupLayout(g, unparse(g))
  /\ (call = "parse_esp" /\ pc = "ExpectTag") =>
       \A g \in Groups(yielded) : GroupLayout(g, unparse(g))

\* C7 witness: a group holding a child has been serialised
C7_Witness ==
  /\ call = "unparse"
  /\ pc = "bytes"
  /\ \E g \in Groups(tree) : g.data # <<>>

\* C8: when parse_esp has yielded the group at the start of the stream, the
\* bytes taken for its children are at most the declared total_size less
\* 24, its children are decoded from those bytes only, and the driver is at
\* the first byte after the declared body.
C8_GroupBodyBound ==
  (call = "parse_esp" /\ pc = "ExpectTag" /\ Len(yielded) = 1 /\ yielded[1].kind = "Group") =>
    /\ offset - 24 <= Max(LE(SubSeq(raw_bytes, 5, 8)) - 24, 0)
    /\ UnparsedLen(yielded[1].data) <= Max(LE(SubSeq(raw_bytes, 5, 8)) - 24, 0)
    /\ (24 <= LE(SubSeq(raw_bytes, 5, 8)) /\ LE(SubSeq(raw_bytes, 5, 8)) <= Len(raw_bytes))
         => offset = LE(SubSeq(raw_bytes, 5, 8))

\* the body the serialisation of a record is to carry after the 20-byte
\* header, fields the concatenated encodings of its fields
ExpectedBody(flags, fields) ==
  IF IsCompressed(flags) THEN ToLE(Len(fields), 4) \o zlib_compress(fields) ELSE fields

\* out is the serialisation of record r: data_size and body
RecordLayout(r, out) ==
  out.st = "ok" =>
    /\ LE(SubSeq(out.bytes, 5, 8)) = Len(out.bytes) - 24
    /\ SubSeq(out.bytes, 25, Len(out.bytes))
         = ExpectedBody(r.flags, fields_unparse(r.data).bytes)

\* C9: the serialisation of every record, of the tree the client has
\* serialised or returned by a parse, declares as data_size the number of
\* bytes that follow its header: the field encodings, or the size prefix
\* and the compressed data.  A record parsed from a stream that declared
\* another length is no exception.
C9_RecordDataSize ==
  /\ (call = "unparse" /\ pc = "bytes" /\ Unaltered) =>
       \A r \in Records(tree) : RecordLayout(r, unparse(r))
  /\ pc = "Parsed" => RecordLayout(parsed[1], unparse(parsed[1]))

\* C9 witness: a record has been parsed from a stream that declared a length
\* other than the one its serialisation carries
C9_Witness ==
  /\ pc = "Parsed"
  /\ ~Unaltered
  /\ unparse(parsed[1]).st = "ok"
  /\ LE(SubSeq(raw_bytes, 5, 8)) # Len(unparse(parsed[1]).bytes) - 24

\* C10: parsing the serialisation of a record whose flags have bit
\* 0x00040000 set returns an equal record with the flag set, whose
\* serialisation is the parsed bytes; the size prefix is the length of the
\* uncompressed field encodings.
C10_CompressedRoundTrip ==
  (call = "Record.parse" /\ Unaltered /\ IsCompressed(tree[1].flags)) =>
    /\ LE(SubSeq(raw_bytes, 25, 28)) = Len(fields_unparse(tree[1].data).bytes)
    /\ pc = "Parsed"
    /\ parsed = <<tree[1]>>
    /\ IsCompressed(parsed[1].flags)
    /\ unparse(parsed[1]) = OkBytes(SubSeq(raw_bytes, 1, Len(unparse(tree[1]).bytes)))

\* the flags of the header of the first record of the stream have bit
\* 0x00040000 set
StreamCompressed == (LE(SubSeq(raw_bytes, 9, 12)) \div 262144) % 2 = 1

\* the body of the first record of the stream, as its header declares it
StreamBody == SubSeq(raw_bytes, 25, Min(24 + LE(SubSeq(raw_bytes, 5, 8)), Len(raw_bytes)))

\* one byte of the 4-byte size prefix of the compressed record tree[1] is altered
PokedSizePrefix ==
  /\ call = "Record.parse"
  /\ IsCompressed(tree[1].flags)
  /\ alteration.kind = "poke"
  /\ alteration.at \in 25..28

\* what Record.parse has done is what the loop of the record's class does
\* over the buffer buf: r is that loop's result
SubrecordsAre(r) ==
  /\ subrecords = [n |-> Len(r.val), at |-> r.pos]
  /\ IF r.st = "ok" THEN pc = "Parsed" /\ parsed[1].data = r.val
     ELSE pc \in {"Raised", "Hung"} /\ error = r.st /\ parsed = <<>>

\* C11: Record.parse of a record whose flags have bit 0x00040000 set takes
\* the first 4 body bytes as the decompressed size and parses the
\* decompression of the rest; when the decompressed length is not that size
\* it raises and returns no Record; when the bit is clear it parses the body
\* as it stands.
C11_CompressedBody ==
  /\ PokedSizePrefix =>
       (pc = "Raised" /\ error = "AssertionError" /\ parsed = <<>> /\ subrecords = NoSub)
  /\ (call = "Record.parse" /\ Unaltered /\ IsCompressed(tree[1].flags)) =>
       /\ LE(SubSeq(raw_bytes, 25, 28)) = Len(fields_unparse(tree[1].data).bytes)
       /\ SubrecordsAre(parse_subrecords(tree[1].cls, fields_unparse(tree[1].data).bytes,
                                         0, <<>>))
  /\ (call = "Record.parse"
        /\ (Unaltered \/ (alteration.kind = "poke" /\ alteration.at = 11))
        /\ ~StreamCompressed) =>
       SubrecordsAre(parse_subrecords(tree[1].cls, StreamBody, 0, <<>>))

\* C11 witness: the parse of a compressed record whose size prefix is not
\* the length of the decompressed body has raised
C11_Witness ==
  /\ PokedSizePrefix
  /\ pc = "Raised"

\* the field classes with a fixed payload size
FixedSizeField(fld) ==
  \/ fld.owner = "TES4" /\ fld.name \in {"HEDR", "DATA"}
  \/ fld.owner = "subrecords" /\ fld.name = "OBND"
  \/ fld.owner = "ACTI" /\ fld.name \in {"INAM", "RNAM", "SCRI", "SNAM", "VNAM", "WNAM"}
  \/ fld.owner = "Model" /\ fld.name = "MODB"
  \/ fld.owner = "Destruction" /\ fld.name \in {"DEST", "DSTD", "DSTF"}

\* Record.parse is called on the stream of the uncompressed record tree[1],
\* whose first field is of a fixed-size class
FixedSizeFirstField ==
  /\ call = "Record.parse"
  /\ ~IsCompressed(tree[1].flags)
  /\ tree[1].data # <<>>
  /\ FixedSizeField(tree[1].data[1])

\* one byte of the length prefix of that field is altered
PokedLengthPrefix ==
  /\ FixedSizeFirstField
  /\ alteration.kind = "poke"
  /\ alteration.at \in 29..30

\* the stream ends inside the payload of that field
TruncatedPayload ==
  /\ FixedSizeFirstField
  /\ alteration.kind = "truncate"
  /\ alteration.at \in 30..(24 + Len(field_unparse(tree[1].data[1]).bytes) - 1)

\* C12: the parse of a fixed-size field whose 2-byte length prefix is not the
\* size of its class raises a size-mismatch error, and no field value is
\* made from a prefix of another value or from a payload cut short.
C12_FixedSizePrefix ==
  /\ PokedLengthPrefix =>
       /\ pc = "Raised"
       /\ error \in {"AssertionError", "ValueError"}
       /\ parsed = <<>>
       /\ subrecords.n = 0
  /\ TruncatedPayload =>
       /\ pc # "Parsed"
       /\ subrecords.n = 0

\* the record the example's bytes stand for, as it is parsed: the version
\* is the float32 nearest 0.94
ExampleParsed ==
  [ExampleRecord EXCEPT !.data = <<Field("TES4", "HEDR", <<Float(1064346583, 0), 5, NULL>>)>>]

ExampleCalled(body_length) ==
  /\ alteration = [kind |-> "example", at |-> body_length]
  /\ call = "Record.parse"

\* C13 as stated: the example whose header declares body_length=12 parses
\* to exactly one TES4 record holding the single field HEDR(0.94, 5, NULL),
\* and re-encoding that record reproduces the input bytes.
C13_Example ==
  ExampleCalled(12) =>
    /\ pc = "Parsed"
    /\ parsed = <<ExampleParsed>>
    /\ Record_unparse(parsed[1]) = OkBytes(raw_bytes)

\* C13, amended: the example whose header declares body_length=18 (tag, size
\* field and payload of the HEDR field) parses, by TES4.parse called with
\* the tag, to exactly one TES4 record holding the single field HEDR(float32
\* nearest 0.94, 5, NULL), the whole input is consumed, and re-encoding that
\* record reproduces the input bytes.
C13_ExampleAmended ==
  ExampleCalled(18) =>
    /\ pc = "Parsed"
    /\ parsed = <<ExampleParsed>>
    /\ subrecords = [n |-> 1, at |-> 18]
    /\ offset = Len(raw_bytes)
    /\ Record_unparse(parsed[1]) = OkBytes(raw_bytes)

C13_Witness == ExampleCalled(18) /\ pc = "Parsed" /\ Len(raw_bytes) = 42

\* C14: on every finite input each step of the parse returns: it yields an
\* entity, ends at the end of the input, or raises; no field codec, the
\* NUL-terminated string readers included, is left looping on an exhausted
\* input.
C14_Terminates ==
  /\ pc # "Hung"
  /\ error # "hang"
  /\ call = "parse_esp" => pc \in {"ExpectTag", "Done", "Raised"}
  /\ call = "Record.parse" => pc \in {"Parsed", "Raised"}

\* the record r is laid out as create_tes4 is documented for arguments a
CreatedAs(r, a, d) ==
  /\ r.kind = "Record" /\ r.cls = "TES4" /\ r.type = Encode("TES4")
  /\ r.flags = 0 /\ r.id = <<0, 0, 0, 0>> /\ r.revision = 0 /\ r.version = 15
  /\ Len(r.data) = 2 + d + 2 * Len(a.masters)
  /\ r.data[1] = Field("TES4", "HEDR", <<a.version, a.num_records, a.next_object_id>>)
  /\ r.data[2] = Field("TES4", "CNAM", Utf8(a.author))
  /\ (d = 1) => r.data[3] = Field("TES4", "SNAM", Utf8(a.description[1]))
  /\ (d = 0) => \A k \in 1..Len(r.data) : r.data[k].name # "SNAM"
  /\ \A k \in 1..Len(a.masters) :
       /\ r.data[2 + d + 2 * k - 1] = Field("TES4", "MAST", Utf8(a.masters[k]))
       /\ r.data[2 + d + 2 * k].name = "DATA"

\* arguments the file format can hold as they are: a version that is a
\* float32, and strings without a NUL
Storable(a) ==
  /\ a.version.excess = 0
  /\ ~HasNul(a.author)
  /\ \A k \in 1..Len(a.description) : ~HasNul(a.description[k])
  /\ \A k \in 1..Len(a.masters) : ~HasNul(a.masters[k])

RoundTrips ==
  /\ call = "unparse" => pc = "bytes"
  /\ call = "Record.parse" => (pc = "Parsed" /\ parsed = tree)

\* C15 as stated: create_tes4 returns a TES4 record with flags 0, a null
\* form id, revision 0 and version 15 whose data is HEDR, CNAM, SNAM iff a
\* description is given, then MAST and DATA for each master in order; and
\* parsing the unparse() of that record yields an equal record.
C15_CreateTes4 ==
  (args # <<>> /\ Unaltered) =>
    /\ CreatedAs(tree[1], args[1], Len(args[1].description))
    /\ RoundTrips

\* C15, amended: the layout is as stated for all arguments; parsing the
\* unparse() of the record yields an equal record when the version is a
\* float32 value and no string argument holds a NUL.
C15_CreateTes4Amended ==
  (args # <<>> /\ Unaltered) =>
    /\ CreatedAs(tree[1], args[1], Len(args[1].description))
    /\ Storable(args[1]) => RoundTrips

C15_Witness ==
  /\ args # <<>> /\ Unaltered
  /\ Storable(args[1])
  /\ args[1].description # <<>> /\ Len(args[1].masters) = 2
  /\ call = "Record.parse" /\ pc = "Parsed" /\ Len(parsed[1].data) = 7

\* the tree is a parsed value the client has edited
Edited == edits > 0 /\ call # "edit"

EditedLengths ==
  (Edited /\ call = "unparse") =>
    /\ pc = "bytes"
    /\ \A g \in Groups(tree) : GroupLayout(g, unparse(g))
    /\ \A r \in Records(tree) : RecordLayout(r, unparse(r))

EditedReparse ==
  /\ (Edited /\ call = "parse_esp") =>
       /\ pc \notin {"Raised", "Hung"}
       /\ pc = "Done" => yielded = tree
  /\ (Edited /\ call = "Record.parse") => (pc = "Parsed" /\ parsed = <<tree[1]>>)

\* C16: after edits to a parsed tree (fields of a record, children of a
\* group appended, removed or replaced), unparse emits bytes in which every
\* record's data_size and every group's total_size are the emitted lengths,
\* and parsing those bytes yields a tree equal to the edited tree.
C16_EditedTree == EditedLengths /\ EditedReparse

\* the stream is a serialised tree that starts with a record of a known type
StartsWithRecord ==
  /\ Unaltered
  /\ call = "parse_esp"
  /\ IsName(Read(raw_bytes, 0, 4))
  /\ Decode(Read(raw_bytes, 0, 4)) \in KnownRecordTypes

\* C17: when parse_esp reads a tag of the known record-type set it calls
\* that type's parse with the tag and yields a Record whose type is the 4
\* bytes read, so that unparse of the yielded Record starts with the tag.
C17_TagPassed ==
  StartsWithRecord =>
    /\ error # "TypeError"
    /\ tree[1].data = <<>> => yielded # <<>>
    /\ yielded # <<>> =>
         /\ yielded[1].kind = "Record"
         /\ yielded[1].type = Read(raw_bytes, 0, 4)
         /\ SubSeq(unparse(yielded[1]).bytes, 1, 4) = Read(raw_bytes, 0, 4)

\* a record holding one field with an accepted tag has been handed to its
\* class's parse
TaggedCalled == alteration.kind = "tagged" /\ call = "Record.parse"

\* C18: every tag that a record type's parse_subrecords loop accepts
\* resolves to a field codec: the codec's decode is invoked and a field of
\* that tag is yielded, or the codec raises a decode error; the codec lookup
\* never fails.
C18_AcceptedTagHasCodec ==
  TaggedCalled =>
    /\ error # "AttributeError"
    /\ pc = "Parsed" =>
         /\ Len(parsed[1].data) = 1
         /\ parsed[1].data[1].name = tree[1].data[1].name

\* the first field of the record handed to the parse came out as r, the
\* result of a turn of the dispatch loop
FirstFieldIs(r) ==
  IF r.st = "ok" THEN pc = "Parsed" /\ parsed[1].data[1] = r.val
  ELSE pc \in {"Raised", "Hung"} /\ error = r.st /\ subrecords.n = 0

\* C19: the order in which a record type's dispatch tries its tag tests
\* does not affect the result: for PERK, the class's own tags tested before
\* or after the members of PerkEffect, every body gives the same fields and
\* the same errors.
C19_OrderIndependent ==
  (TaggedCalled /\ tree[1].cls = "PERK") =>
    FirstFieldIs(PERK_dispatch_members_first(Read(StreamBody, 0, 4), StreamBody, 4))

\* the field from, re-encoded and parsed again, came back as the field to
SameCodec(from, to) == from.owner = to.owner /\ from.name = to.name

\* C20: the first 4 bytes a field's unparse emits are the tag under which
\* the dispatch table of its record type routes to the field's codec: a
\* field parsed under a tag is re-encoded with that tag, and the fields a
\* record has re-encoded are dispatched back to their codecs when the
\* output is parsed again.
C20_UnparseTag ==
  /\ (TaggedCalled /\ pc = "Parsed") =>
       SubSeq(field_unparse(parsed[1].data[1]).bytes, 1, 4) = Read(StreamBody, 0, 4)
  /\ (call = "Record.parse" /\ Unaltered /\ tree[1].data # <<>>) =>
       /\ ~(error = "NotImplementedError" /\ subrecords.n = 0)
       /\ pc = "Parsed" =>
            \A k \in 1..Len(parsed[1].data) : SameCodec(tree[1].data[k], parsed[1].data[k])

\* out is the encoding of a field: tag, 2-byte length prefix, and as many
\* payload bytes as the prefix says
FieldLayout(out) ==
  out.st = "ok" =>
    /\ Len(out.bytes) >= 6
    /\ LE(SubSeq(out.bytes, 5, 6)) = Len(out.bytes) - 6

\* C21: for every field value, of a tree built or edited in memory or
\* returned by a parse, unparse emits the tag, a 2-byte length prefix and the
\* payload, and the prefix is the number of payload bytes that follow it.
C21_LengthPrefix ==
  /\ (call = "unparse" /\ pc = "bytes") =>
       \A r \in Records(tree) :
         \A k \in 1..Len(r.data) : FieldLayout(field_unparse(r.data[k]))
  /\ pc = "Parsed" =>
       \A k \in 1..Len(parsed[1].data) : FieldLayout(field_unparse(parsed[1].data[k]))

\* fld is of a class derived from CStringRecord
IsCString(fld) ==
  \/ fld.owner = "TES4" /\ fld.name \in {"CNAM", "SNAM", "MAST"}
  \/ fld.name \in {"EDID", "FULL", "XATO", "MODL", "DESC", "ICON", "MICO", "EPF2"}

\* Record.parse is called on the stream of the uncompressed record tree[1],
\* whose first field is a NUL-free string, after a byte of that field's size
\* prefix was overwritten
PokedStringPrefix ==
  /\ call = "Record.parse"
  /\ alteration.kind = "poke"
  /\ alteration.at \in 29..30
  /\ ~IsCompressed(tree[1].flags)
  /\ tree[1].data # <<>>
  /\ IsCString(tree[1].data[1])
  /\ ~HasNul(tree[1].data[1].v)

\* out is the encoding of the string field fld, and decoding the bytes
\* after its tag gives fld back and stops at their end
StringLayout(fld, out) ==
  /\ out = OkBytes(Encode(fld.name) \o ToLE(Len(fld.v) + 1, 2) \o fld.v \o <<0>>)
  /\ CStringRecord_parse(fld.owner, fld.name, SubSeq(out.bytes, 5, Len(out.bytes)), 0)
       = Ok(fld, Len(out.bytes) - 4)

PERK_DATA_variant(size) ==
  CASE size = 8 -> Field("PerkEffect", "DATAQuestStage", NULL)
    [] size = 4 -> Field("PerkEffect", "DATAAbility", NULL)
    [] size = 3 -> Field("PerkEffect", "DATAEntryPoint", NULL)
    [] size = 5 -> Field("PERK", "DATA", NULL)
    [] OTHER -> Field("none", "none", NULL)

\* Record.parse is called on a PERK record from another writer whose one
\* field has the tag DATA
TaggedPerkData ==
  /\ TaggedCalled
  /\ tree[1].cls = "PERK"
  /\ tree[1].data[1].name = "DATA"

\* fld, read from the payload after the tag DATA, is of the class variant
\* names; its encoding is DATA and that payload, which reads back as fld
PerkDataVariant(variant, payload, fld) ==
  /\ fld.owner = variant.owner
  /\ fld.name = variant.name
  /\ field_unparse(fld) = OkBytes(Encode("DATA") \o payload)
  /\ PERK_DATA_parse(SubSeq(field_unparse(fld).bytes, 5, Len(field_unparse(fld).bytes)), 0)
       = Ok(fld, Len(payload))

\* C23: PERK.DATA.parse selects the layout by the length prefix: 8 is
\* DATAQuestStage, 4 DATAAbility, 3 DATAEntryPoint, 5 the plain PERK.DATA,
\* any other value a size-mismatch error; each variant is re-encoded under
\* the tag DATA with its own size, so parsing the output selects the same
\* variant with equal values.
C23_PerkDataVariants ==
  TaggedPerkData =>
    IF PERK_DATA_variant(LE(SubSeq(tree[1].data[1].v, 1, 2))).name = "none"
    THEN pc = "Raised" /\ error = "ValueError" /\ parsed = <<>>
    ELSE /\ pc = "Parsed"
         /\ Len(parsed[1].data) = 1
         /\ PerkDataVariant(PERK_DATA_variant(LE(SubSeq(tree[1].data[1].v, 1, 2))),
                            tree[1].data[1].v, parsed[1].data[1])

\* C23 witness: the DATA field of a PERK record was read as a
\* DATAQuestStage
C23_Witness ==
  /\ TaggedPerkData
  /\ pc = "Parsed"
  /\ parsed[1].data[1].name = "DATAQuestStage"

\* the client has called unparse on a value of an integer class and parse on
\* the result
IntUnparsed ==
  /\ call = "codec.unparse"
  /\ parsed[1].fld.name \in {"EPFT", "PRKC", "EPF3", "INDX", "QOBJ", "NVER"}

\* the client has called Int16Record.parse on a prefix and 2 bytes, and
\* unparse on the result
Int16Parsed ==
  /\ call = "codec.parse"
  /\ parsed[1].fld.name = "INDX"

\* C24: for every integer class (uint8, int8, uint16, int16, uint32, int32)
\* and every value in its range, unparse succeeds and parse(unparse(v)) is
\* v; for every 2-byte payload p, an Int16Record read from prefix + p is
\* re-emitted as tag + prefix + p, negative values included.
C24_IntegerRoundTrip ==
  /\ IntUnparsed =>
       /\ parsed[1].out.st = "ok"
       /\ parsed[1].back = Ok(parsed[1].fld, Len(parsed[1].out.bytes) - 4)
  /\ Int16Parsed =>
       /\ parsed[1].back.st = "ok"
       /\ parsed[1].out = OkBytes(Encode("INDX") \o raw_bytes)

\* the size the header at position pos of buf declares for its entity: the
\* total_size of a group, the header and data_size of a record
DeclaredSize(buf, pos) ==
  IF Read(buf, pos, 4) = Encode("GRUP") THEN LE(Read(buf, pos + 4, 4))
  ELSE 24 + LE(Read(buf, pos + 4, 4))

\* the step is a next() on the generator that has not ended
NextCalled == pc \in {"bytes", "ExpectTag"} /\ call' = "parse_esp"

\* the step is a next() on the generator that has ended
NextCalledAgain == call = "parse_esp" /\ call' = "parse_esp" /\ pc \in {"Done", "Raised", "Exhausted"}

\* C25: parse_esp is lazy and forward-only: when entity k is yielded the
\* stream stands at the end of entity k and no byte after it has been read;
\* the stream position never decreases; once the sequence has ended, by the
\* end of the stream or by an error, iterating again yields nothing and
\* reads nothing.
C25_LazyForwardOnly ==
  [][/\ NextCalled =>
          /\ offset' >= offset
          /\ offset' <= Len(raw_bytes)
          /\ pc' = "ExpectTag" =>
               /\ Len(yielded') = Len(yielded) + 1
               /\ SubSeq(yielded', 1, Len(yielded)) = yielded
               /\ Unaltered => offset' = offset + DeclaredSize(raw_bytes, offset)
          /\ pc' # "ExpectTag" => yielded' = yielded
     /\ NextCalledAgain =>
          /\ yielded' = yielded
          /\ offset' = offset
          /\ pc' = "Exhausted"]_vars

\* C25 witness: the sequence ended after an entity was yielded and before
\* the end of the stream, and the consumer has asked for more
C25_Witness ==
  /\ call = "parse_esp"
  /\ pc = "Exhausted"
  /\ yielded # <<>>
  /\ offset < Len(raw_bytes)

ArrayClasses == {"XCLR", "ONAM", "NVCI", "NVVX"}

\* the element size of an array-valued class
ElementSize(name) == IF name = "NVVX" THEN 12 ELSE 4

\* the bytes of element e of an array field
ElementBytes(name, e) == IF name = "NVVX" THEN PackAll(NvvxVertex_format, e) ELSE e

\* v holds the elements of body, of the given size each, in order
ElementsInOrder(name, v, body, size) ==
  /\ Len(v) * size = Len(body)
  /\ \A k \in 1..Len(v) :
       ElementBytes(name, v[k]) = SubSeq(body, (k - 1) * size + 1, k * size)

\* the client has called parse of an array-valued class on a size field and
\* as many bytes
ArrayParsed ==
  /\ call = "codec.parse"
  /\ parsed[1].fld.name \in ArrayClasses

ArrayUnparsed ==
  /\ call = "codec.unparse"
  /\ parsed[1].fld.name \in ArrayClasses

\* C26: for the array-valued fields (CELL.XCLR, TES4.ONAM and NAVI.NVCI of
\* 4-byte elements, NAVM.NVVX of 12-byte elements) parse fails when the
\* declared total length is not a multiple of the element size, and
\* otherwise returns total / element_size elements in stream order; unparse
\* emits a total of count * element_size and then the elements in list
\* order.
C26_ArrayFields ==
  /\ ArrayParsed =>
       IF LE(SubSeq(raw_bytes, 1, 2)) % ElementSize(parsed[1].fld.name) # 0
       THEN parsed[1].back.st = "AssertionError"
       ELSE /\ parsed[1].back.st = "ok"
            /\ parsed[1].back.pos = Len(raw_bytes)
            /\ Len(parsed[1].back.val.v)
                 = LE(SubSeq(raw_bytes, 1, 2)) \div ElementSize(parsed[1].fld.name)
            /\ ElementsInOrder(parsed[1].fld.name, parsed[1].back.val.v,
                               SubSeq(raw_bytes, 3, Len(raw_bytes)),
                               ElementSize(parsed[1].fld.name))
  /\ ArrayUnparsed =>
       /\ parsed[1].out.st = "ok"
       /\ SubSeq(parsed[1].out.bytes, 5, 6)
            = ToLE(Len(parsed[1].fld.v) * ElementSize(parsed[1].fld.name), 2)
       /\ ElementsInOrder(parsed[1].fld.name, parsed[1].fld.v,
                          SubSeq(parsed[1].out.bytes, 7, Len(parsed[1].out.bytes)),
                          ElementSize(parsed[1].fld.name))

\* C26 witness: NAVM.NVVX.parse has returned two vertices
C26_Witness ==
  /\ ArrayParsed
  /\ parsed[1].fld.name = "NVVX"
  /\ parsed[1].back.st = "ok"
  /\ Len(parsed[1].back.val.v) = 2

\* the client has called unparse on a NOTE.TNAM value without a NUL, and
\* NOTE.TNAM.parse on the bytes after the tag
TnamUnparsed ==
  /\ call = "codec.unparse"
  /\ parsed[1].fld.name = "TNAM"
  /\ ~HasNul(parsed[1].fld.v)

\* C27: for every NOTE.TNAM value v without a NUL byte, whatever its length
\* (3 and 4 included), NOTE.TNAM.parse on the bytes after the tag of
\* v.unparse() returns a value equal to v and consumes exactly those bytes.
C27_TnamRoundTrip ==
  TnamUnparsed =>
    /\ parsed[1].out.st = "ok"
    /\ parsed[1].back = Ok(parsed[1].fld, Len(parsed[1].out.bytes) - 4)

\* the step is Record.parse called on a record from another writer whose
\* body is 1 to 3 bytes
ShortBodyParsed ==
  /\ pc = "bytes"
  /\ alteration.kind = "short"
  /\ call' = "Record.parse"

\* the step is Record.parse called on the stream of the uncompressed record
\* tree[1], cut 1 to 3 bytes after the start of its j-th field
CutInTagParsed(j) ==
  /\ pc = "bytes"
  /\ alteration.kind = "truncate"
  /\ call' = "Record.parse"
  /\ ~IsCompressed(tree[1].flags)
  /\ j \in 1..Len(tree[1].data)
  /\ \A i \in 1..(j - 1) : ReadWhole(tree[1].data[i])
  /\ alteration.at - 24 - FieldStart(tree[1], j) \in 1..3

\* C28: whenever only 1 to 3 bytes remain where a 4-byte tag is expected, at
\* top level or in the body of a record of any type (NPC_ included), parsing
\* raises an error: the short read is not taken as the end of the input and
\* is not handed to a field codec.
C28_ShortTag ==
  [][/\ (NextCalled /\ Len(raw_bytes) - offset \in 1..3) =>
          /\ pc' = "Raised"
          /\ error' = "NotImplementedError"
          /\ yielded' = yielded
     /\ ShortBodyParsed =>
          /\ pc' = "Raised"
          /\ error' = "NotImplementedError"
          /\ subrecords'.n = 0
     /\ \A j \in 1..MaxNodes :
          CutInTagParsed(j) =>
            /\ pc' = "Raised"
            /\ error' = "NotImplementedError"
            /\ subrecords'.n = j - 1]_vars

\* the classes the claim names: the strings, TES4.DATA, Model.MODS and the
\* classes of a fixed size
PrefixedField(fld) ==
  \/ IsCString(fld)
  \/ FixedSizeField(fld)
  \/ fld.owner = "Model" /\ fld.name = "MODS"

\* Record.parse has returned a record of one field, of a class the claim
\* names, read from an uncompressed body
OneFieldParsed ==
  /\ call = "Record.parse"
  /\ pc = "Parsed"
  /\ ~StreamCompressed
  /\ Len(parsed[1].data) = 1
  /\ PrefixedField(parsed[1].data[1])

\* RawBytesRecord.parse has returned
RawBytesParsed ==
  /\ call = "codec.parse"
  /\ parsed[1].fld.name = "XRGD"
  /\ parsed[1].back.st = "ok"

\* C29: whenever the parse of a field codec returns, the stream stands
\* exactly 2 + L bytes past the field's tag, L being the value of the 2-byte
\* length prefix, so that the next 4 bytes the loop reads are the next tag
\* (CStringRecord, RawBytesRecord, TES4.DATA, Model.MODS and the fixed-size
\* codecs).
C29_AdvanceByPrefix ==
  /\ OneFieldParsed => subrecords.at = 4 + 2 + LE(Read(StreamBody, 4, 2))
  /\ RawBytesParsed => parsed[1].back.pos = 2 + LE(Read(raw_bytes, 0, 2))

\* parse_esp is called on a stream that starts with a group whose header is
\* whole
GroupHeaderRead ==
  /\ call = "parse_esp"
  /\ Len(raw_bytes) >= 24
  /\ SubSeq(raw_bytes, 1, 4) = Encode("GRUP")

\* the group g holds the label, group_type, stamp and 6 reserved bytes of
\* the header hdr (the 16 bytes after total_size), and its unparse() writes
\* them again
HeaderKept(g, hdr, out) ==
  /\ g.label = SubSeq(hdr, 1, 4)
  /\ g.group_type = LE(SubSeq(hdr, 5, 8))
  /\ g.stamp = LE(SubSeq(hdr, 9, 10))
  /\ g.unknown = SubSeq(hdr, 11, 16)
  /\ out.st = "ok"
  /\ SubSeq(out.bytes, 9, 24) = hdr

\* C30: Group.parse returns a Group only when the group_type of the header
\* is one of the enumerated values 0..10; for any other value it raises
\* before it reads a byte of the group's body; for an accepted header the
\* label, group_type, stamp and 6 reserved bytes are stored as they are and
\* written again as they are by unparse.
C30_GroupHeader ==
  /\ call = "parse_esp" => \A g \in Groups(yielded) : g.group_type \in GroupTypeEnum
  /\ (GroupHeaderRead /\ LE(SubSeq(raw_bytes, 13, 16)) \notin GroupTypeEnum) =>
       /\ yielded = <<>>
       /\ offset = 24
       /\ pc \in {"Raised", "Exhausted"}
       /\ pc = "Raised" => error = "ValueError"
  /\ (GroupHeaderRead /\ yielded # <<>>) =>
       HeaderKept(yielded[1], SubSeq(raw_bytes, 9, 24), unparse(yielded[1]))

\* C30 witness: the group_type of the first group of the stream was
\* overwritten with a value outside the enumeration and the parse has raised
C30_Witness ==
  /\ GroupHeaderRead
  /\ alteration.kind = "poke"
  /\ LE(SubSeq(raw_bytes, 13, 16)) \notin GroupTypeEnum
  /\ pc = "Raised"

====
